---- MODULE Spec2Model ----
(***************************************************************************)
(* Orchestration core of AIOS Pro: the turn lifecycle (capsule-compiler    *)
(* turn handlers driven by aios-chat handleTurn), the surface store, the   *)
(* retrying non-streaming inference client and the streaming client/relay. *)
(***************************************************************************)
EXTENDS Integers, Sequences, FiniteSets, TLC

Null == "null"

\* a timer that is not armed (after clearTimeout, or never set)
Unarmed == 0 - 1

(***************************************************************************)
(* PART 1 - retryService: withRetry / fetchWithTimeout, llmClient: callLLM *)
(***************************************************************************)

\* retryService: const RETRY_DELAYS = [0, 1000, 3000]
RETRY_DELAYS == <<0, 1000, 3000>>

\* llmClient: const LLM_TIMEOUT_MS = 150000
LLM_TIMEOUT_MS == 150000

\* withRetry: options.maxRetries ?? 3
DefaultMaxRetries == 3

\* largest explicit options.maxRetries explored
MaxRetriesOpt == 4

\* granularity with which modelled time passes between timer deadlines
StepMs == 75000

\* how long an attempt whose timer is no longer armed is followed
MaxElapsed == 300000

\* options.maxRetries as passed by a caller: absent <<>> (callLLM) or <<n>>
RetryOptions == {<<>>} \cup {<<n>> : n \in 0..MaxRetriesOpt}

\* the ways one execution of callLLM's closure can fail
ErrorKinds == {"transport", "status", "abort", "body"}

VARIABLES
  options,      \* withRetry: options.maxRetries (<<>> when not supplied)
  rpc,          \* position inside withRetry / fetchWithTimeout / callLLM closure
  attempt,      \* withRetry: loop variable attempt
  lastError,    \* withRetry: lastError
  timeoutId,    \* fetchWithTimeout: ms left on the abort timer, Unarmed after clearTimeout
  sleepLeft,    \* sleep(): ms left on the sleep timer, Unarmed when not sleeping
  responseOk,   \* callLLM closure: response.ok of the response whose body is being read
  elapsed,      \* ms since the running attempt started
  idle,         \* ms since the previous attempt ended
  attempts,     \* one record per call of fn: the gap before it and how it ended
  raised,       \* error thrown by withRetry to its caller
  result        \* value returned by withRetry to its caller

retryVars == <<options, rpc, attempt, lastError, timeoutId, sleepLeft,
               responseOk, elapsed, idle, attempts, raised, result>>

VARIABLES
  currentSessionId  \* handlers/session: let currentSessionId

sessVars == <<currentSessionId>>

VARIABLES
  req,            \* body of the POST /llm/stream request: llmId and surfaces
  hpc,            \* position inside handleLLMStream
  httpStatus,     \* res: status code of the response, 0 while none is set
  headersSent,    \* res.headersSent
  out,            \* res: the 'data:' messages written so far, in order
  resEnded,       \* res: end() or json() has completed the response
  compiles,       \* number of compileCapsule calls made for this request
  spc,            \* position inside the generator streamLLM
  connectTimeout, \* streamLLM: ms left on connectTimeout, Unarmed when cleared or fired
  idleTimeout,    \* streamLLM: ms left on idleTimeout, Unarmed when cleared or fired
  aborted,        \* streamLLM: controller.signal.aborted
  buffer,         \* streamLLM: buffer (the incomplete last line)
  lines,          \* streamLLM: the lines of the current chunk not yet looked at
  chunkCount,     \* streamLLM: chunkCount
  yielded,        \* streamLLM: the event handed to the consumer by the pending yield
  genErr,         \* error with which streamLLM rejected
  fetches,        \* number of requests sent to llm-service /infer/stream
  wire,           \* llm-service: the part of the response body not yet delivered
  waited,         \* ms since streamLLM last sent its request, got headers or got a chunk
  pulled          \* the events streamLLM has yielded so far, in order

streamVars == <<req, hpc, httpStatus, headersSent, out, resEnded, compiles, spc,
                connectTimeout, idleTimeout, aborted, buffer, lines, chunkCount,
                yielded, genErr, fetches, wire, waited, pulled>>

VARIABLES
  turns,    \* TurnSequencer: every Turn created so far; the last one is the current Turn
  files,    \* fileService: the surface documents, files[sessionId][surfaceId]
  exec      \* aios-chat handleTurn: per chat panel call, its position and locals

turnVars == <<turns, files, exec>>

VARIABLES
  readerOf,     \* which line-buffered reader consumes the body
  sent,         \* the whole response body the producer sends
  unread,       \* the part of the body reader.read() has not returned yet
  rbuffer,      \* the reader's buffer (the incomplete last line)
  rlines,       \* the lines of the current chunk not yet looked at
  readerPc,     \* position inside the reader's loop
  delivered     \* what the reader has handed to its consumer, in order

readerVars == <<readerOf, sent, unread, rbuffer, rlines, readerPc, delivered>>

VARIABLES
  log,      \* the writeSurface calls made so far: surface, content, document before and after
  got       \* what the last readSurface call returned

storeVars == <<log, got>>

VARIABLES
  capsuleRun,   \* capsuleService: one compileCapsule call: its paths and the results so far
  call,         \* a call of a capsuleService function: the function and its arguments
  ret           \* what that call returned

capsuleVars == <<capsuleRun, call, ret>>

vars == <<retryVars, sessVars, streamVars, turnVars, readerVars, storeVars, capsuleVars>>

\* everything the non-streaming client does not touch
notRetry == <<sessVars, streamVars, turnVars, readerVars, storeVars, capsuleVars>>

\* everything the streaming path does not touch
notStream == <<retryVars, turnVars, readerVars, storeVars, capsuleVars>>

\* everything the turn lifecycle does not touch
notTurn == <<retryVars, streamVars, readerVars, storeVars, capsuleVars>>

\* everything a line-buffered reader does not touch
notReader == <<retryVars, sessVars, streamVars, turnVars, storeVars, capsuleVars>>

\* everything a direct call of the surface store does not touch
notStore == <<retryVars, sessVars, streamVars, readerVars, turns, exec, capsuleVars>>

\* const maxRetries = options.maxRetries ?? 3
maxRetries == IF options = <<>> THEN DefaultMaxRetries ELSE options[1]

\* the schedule read at RETRY_DELAYS[attempt] instead of RETRY_DELAYS[attempt - 1]
RetryDelayShifted(a) == IF a + 1 <= Len(RETRY_DELAYS) THEN RETRY_DELAYS[a + 1] ELSE 0

\* RETRY_DELAYS[attempt - 1] (JS, 0-based); undefined is rendered as 0 (falsy)
RetryDelay(a) == IF a >= 1 /\ a <= Len(RETRY_DELAYS) THEN RETRY_DELAYS[a] ELSE 0

\* an Error object: its kind and the attempt (0-based) that produced it
Err(k, a) == [kind |-> k, at |-> a]

\* new Error('All retry attempts failed')
AllFailed == [kind |-> "all-failed", at |-> 0 - 1]

\* lastError = null; also "nothing thrown" / "nothing returned"
NoError == [kind |-> Null, at |-> 0 - 1]

\* no event: the value of a slot that holds no stream event
NoEvent == [token |-> Null, done |-> FALSE, error |-> Null]

\* state of withRetry on entry, for the given options
RetryStart(opts) ==
  /\ options = opts
  /\ rpc = "loop"
  /\ attempt = 0
  /\ lastError = NoError
  /\ timeoutId = Unarmed
  /\ sleepLeft = Unarmed
  /\ responseOk = Null
  /\ elapsed = 0
  /\ idle = 0
  /\ attempts = <<>>
  /\ raised = NoError
  /\ result = NoError

\* no POST /llm/stream request has been received
StreamQuiet ==
  /\ req = [llmId |-> Null, surfaces |-> <<>>]
  /\ hpc = "idle"
  /\ httpStatus = 0
  /\ headersSent = FALSE
  /\ out = <<>>
  /\ resEnded = FALSE
  /\ compiles = 0
  /\ spc = "init"
  /\ connectTimeout = Unarmed
  /\ idleTimeout = Unarmed
  /\ aborted = FALSE
  /\ buffer = <<>>
  /\ lines = <<>>
  /\ chunkCount = 0
  /\ yielded = NoEvent
  /\ genErr = Null
  /\ fetches = 0
  /\ wire = <<>>
  /\ waited = 0
  /\ pulled = <<>>

\* no compileCapsule call is running
IdleRun == [pc |-> "idle", variablePaths |-> <<>>, started |-> 0, results |-> <<>>]

\* no call of a capsuleService function
NoCall == [fn |-> Null]

\* nothing is compiled, resolved, formatted or assembled
CapsuleQuiet ==
  /\ capsuleRun = IdleRun
  /\ call = NoCall
  /\ ret = NoCall

\* no body is being read
ReaderQuiet ==
  /\ readerOf = Null
  /\ sent = <<>>
  /\ unread = <<>>
  /\ rbuffer = <<>>
  /\ rlines = <<>>
  /\ readerPc = "idle"
  /\ delivered = <<>>

\* no readSurface call has returned yet
NoRead == [sessionId |-> Null, surfaceId |-> Null, value |-> <<>>]

\* no session, no Turn, no handleTurn call, no direct call of the store
TurnQuiet ==
  /\ turns = <<>>
  /\ files = <<>>
  /\ exec = <<>>
  /\ log = <<>>
  /\ got = NoRead
  /\ CapsuleQuiet

InitRetry ==
  /\ \E opts \in RetryOptions : RetryStart(opts)
  /\ currentSessionId = Null
  /\ StreamQuiet
  /\ TurnQuiet
  /\ ReaderQuiet

\* fetchWithTimeout entry: new AbortController, setTimeout(abort, timeoutMs), fetch(...)
fetchWithTimeout ==
  /\ rpc' = "fetch"
  /\ timeoutId' = LLM_TIMEOUT_MS
  /\ elapsed' = 0
  /\ attempts' = Append(attempts, [gap |-> idle, outcome |-> "pending", at |-> attempt])
  /\ UNCHANGED <<responseOk>>

\* a loop test that admits one attempt too many
LoopTestInclusive == attempt <= maxRetries

\* withRetry: for (...; attempt < maxRetries; ...)
LoopTest == attempt < maxRetries

\* withRetry: loop head. Leaves the loop and throws, or sleeps, or calls fn()
WithRetryLoop ==
  /\ rpc = "loop"
  /\ IF ~LoopTest
       THEN /\ rpc' = "thrown"
            /\ raised' = IF lastError # NoError THEN lastError ELSE AllFailed
            /\ UNCHANGED <<timeoutId, sleepLeft, responseOk, elapsed, attempts>>
       ELSE IF attempt > 0 /\ RetryDelay(attempt) # 0
         THEN /\ rpc' = "sleep"
              /\ sleepLeft' = RetryDelay(attempt)
              /\ UNCHANGED <<timeoutId, responseOk, elapsed, attempts, raised>>
         ELSE /\ fetchWithTimeout
              /\ UNCHANGED <<sleepLeft, raised>>
  /\ UNCHANGED <<options, attempt, lastError, idle, result>>
  /\ UNCHANGED notRetry

\* sleep(ms) resolves when its timer runs out; fn() is called next
SleepDone ==
  /\ rpc = "sleep"
  /\ sleepLeft = 0
  /\ sleepLeft' = Unarmed
  /\ fetchWithTimeout
  /\ UNCHANGED <<options, attempt, lastError, idle, raised, result>>
  /\ UNCHANGED notRetry

\* a catch block that keeps the first error and gives up on an abort
AttemptFailsNoRetryOnAbort(kind) ==
  /\ lastError' = IF lastError = NoError THEN Err(kind, attempt) ELSE lastError
  /\ attempts' = [attempts EXCEPT ![Len(attempts)].outcome = kind]
  /\ attempt' = IF kind = "abort" THEN maxRetries ELSE attempt + 1
  /\ idle' = 0
  /\ rpc' = "loop"

\* withRetry: catch (error) { lastError = error } and the loop increment
AttemptFails(kind) ==
  /\ lastError' = Err(kind, attempt)
  /\ attempts' = [attempts EXCEPT ![Len(attempts)].outcome = kind]
  /\ attempt' = attempt + 1
  /\ idle' = 0
  /\ rpc' = "loop"

\* fetch resolves with response headers; finally { clearTimeout(timeoutId) }
FetchHeaders(ok) ==
  /\ rpc = "fetch"
  /\ timeoutId' = Unarmed
  /\ responseOk' = IF ok THEN "ok" ELSE "error"
  /\ rpc' = "body"
  /\ UNCHANGED <<options, attempt, lastError, sleepLeft, elapsed, idle, attempts,
                 raised, result>>
  /\ UNCHANGED notRetry

\* fetch rejects (connection refused / reset); finally { clearTimeout(timeoutId) }
FetchTransportError ==
  /\ rpc = "fetch"
  /\ timeoutId' = Unarmed
  /\ AttemptFails("transport")
  /\ UNCHANGED <<options, sleepLeft, responseOk, elapsed, raised, result>>
  /\ UNCHANGED notRetry

\* the timer set by fetchWithTimeout fires: controller.abort() rejects the fetch
TimeoutFires ==
  /\ rpc = "fetch"
  /\ timeoutId = 0
  /\ timeoutId' = Unarmed
  /\ AttemptFails("abort")
  /\ UNCHANGED <<options, sleepLeft, responseOk, elapsed, raised, result>>
  /\ UNCHANGED notRetry

\* callLLM closure after the headers: response.text() + throw, or response.json()
BodyArrives ==
  /\ rpc = "body"
  /\ responseOk' = Null
  /\ IF responseOk = "ok"
       THEN /\ rpc' = "returned"
            /\ result' = [kind |-> "ok", at |-> attempt]
            /\ attempts' = [attempts EXCEPT ![Len(attempts)].outcome = "ok"]
            /\ UNCHANGED <<attempt, lastError, idle>>
       ELSE /\ AttemptFails("status")
            /\ UNCHANGED <<result>>
  /\ UNCHANGED <<options, timeoutId, sleepLeft, elapsed, raised>>
  /\ UNCHANGED notRetry

\* reading the body rejects (connection dropped, invalid JSON)
BodyFails ==
  /\ rpc = "body"
  /\ responseOk' = Null
  /\ AttemptFails("body")
  /\ UNCHANGED <<options, timeoutId, sleepLeft, elapsed, raised, result>>
  /\ UNCHANGED notRetry

\* time still to pass before the earliest armed timer fires
NextDeadline ==
  IF timeoutId # Unarmed THEN timeoutId ELSE sleepLeft

\* d ms pass; no armed timer is overrun
AdvanceRetry ==
  /\ rpc \in {"fetch", "body", "sleep"}
  /\ \E d \in {StepMs, NextDeadline} :
       /\ d > 0
       /\ NextDeadline # Unarmed => d <= NextDeadline
       /\ rpc \in {"fetch", "body"} => elapsed + d <= MaxElapsed
       /\ timeoutId' = IF timeoutId = Unarmed THEN Unarmed ELSE timeoutId - d
       /\ sleepLeft' = IF sleepLeft = Unarmed THEN Unarmed ELSE sleepLeft - d
       /\ elapsed' = IF rpc \in {"fetch", "body"} THEN elapsed + d ELSE elapsed
       /\ idle' = IF rpc = "sleep" THEN idle + d ELSE idle
  /\ UNCHANGED <<options, rpc, attempt, lastError, responseOk, attempts, raised, result>>
  /\ UNCHANGED notRetry

NextRetry ==
  \/ WithRetryLoop
  \/ SleepDone
  \/ \E ok \in BOOLEAN : FetchHeaders(ok)
  \/ FetchTransportError
  \/ TimeoutFires
  \/ BodyArrives
  \/ BodyFails
  \/ AdvanceRetry

SpecRetry == InitRetry /\ [][NextRetry]_vars

(***************************************************************************)
(* Properties of the non-streaming path                                    *)
(***************************************************************************)

\* outcomes of the calls of fn made so far, in call order
Outcomes == [k \in 1..Len(attempts) |-> attempts[k].outcome]

\* C6: with default options withRetry calls fn at most 3 times, a success is
\* the last call and its value is what withRetry returns, and withRetry does
\* not give up before the third call (fail, fail, ok gives 3 calls and ok)
C6_AtMostThreeStopOnSuccess ==
  options = <<>> =>
    /\ Len(attempts) <= 3
    /\ \A k \in 1..Len(attempts) :
         attempts[k].outcome = "ok" =>
           /\ k = Len(attempts)
           /\ rpc = "returned"
           /\ result = [kind |-> "ok", at |-> k - 1]
    /\ rpc = "returned" => Outcomes[Len(attempts)] = "ok"
    /\ rpc = "thrown" => Len(attempts) = 3
    /\ (attempt = 2 /\ rpc = "returned") =>
         /\ Len(attempts) = 3
         /\ Outcomes[1] \in ErrorKinds /\ Outcomes[2] \in ErrorKinds

\* two failures, then a success on the third call, returned to the caller
C6_Witness ==
  /\ options = <<>>
  /\ rpc = "returned"
  /\ Len(attempts) = 3
  /\ Outcomes[1] # "ok" /\ Outcomes[2] # "ok" /\ Outcomes[3] = "ok"
  /\ result.at = 2

\* C7: when withRetry throws, every one of the maxRetries attempts was made and
\* failed, whatever the kinds of failure, and the error thrown is the error of
\* the last attempt
C7_LastErrorRaisedNoEarlyExit ==
  (rpc = "thrown" /\ maxRetries > 0) =>
    /\ Len(attempts) = maxRetries
    /\ \A k \in 1..Len(attempts) : Outcomes[k] \in ErrorKinds
    /\ raised = Err(Outcomes[Len(attempts)], maxRetries - 1)

\* three attempts failing in three different ways, the abort not being the last
C7_Witness ==
  /\ rpc = "thrown"
  /\ Len(attempts) = 3
  /\ Outcomes[1] = "abort" /\ Outcomes[2] = "status" /\ Outcomes[3] = "transport"
  /\ raised = Err("transport", 2)

\* C8: the time that passes between the end of attempt n and the start of
\* attempt n+1 (n counted from 1) is entry n of the schedule 0, 1000, 3000
C8_DelaySchedule ==
  \A n \in 1..(Len(attempts) - 1) :
    n <= Len(RETRY_DELAYS) => attempts[n + 1].gap = RETRY_DELAYS[n]

\* a default call that reached its third attempt: no wait, then 1000 ms
C8_Witness ==
  /\ options = <<>>
  /\ Len(attempts) = 3
  /\ attempts[2].gap = 0
  /\ attempts[3].gap = 1000

\* C9: no attempt is still pending (waiting for headers or for the body) once
\* more than the request timeout has passed since it started
C9_AttemptBoundedByTimeout ==
  rpc \in {"fetch", "body"} => elapsed <= LLM_TIMEOUT_MS

(***************************************************************************)
(* PART 2 - llmClient: streamLLM, handlers/llm-stream: handleLLMStream     *)
(***************************************************************************)

\* llmClient: const LLM_CONNECT_TIMEOUT_MS = 240000
LLM_CONNECT_TIMEOUT_MS == 240000

\* llmClient: const LLM_STREAM_IDLE_TIMEOUT_MS = 45000
LLM_STREAM_IDLE_TIMEOUT_MS == 45000

\* granularity with which modelled time passes while a stream is awaited
StreamStepMs == 30000

\* most atoms llm-service puts into one chunk of the response body
MaxChunk == 3

\* The response body of llm-service is text; it is modelled as a sequence of
\* atoms: NL is "\n", D is the prefix 'data: ', T1/T2/E/X are the JSON texts of
\* two token events, the done event and an error event, G is text that is not
\* JSON.
NL == "NL"

JsonAtoms == {"T1", "T2", "E", "X"}

\* JSON.parse of a JSON atom: the StreamEvent it denotes
ParseEvent(a) ==
  CASE a = "T1" -> [token |-> "t1", done |-> FALSE, error |-> Null]
    [] a = "T2" -> [token |-> "t2", done |-> FALSE, error |-> Null]
    [] a = "E"  -> [token |-> "", done |-> TRUE, error |-> Null]
    [] a = "X"  -> [token |-> Null, done |-> TRUE, error |-> "upstream"]

\* bodies llm-service may send after its headers
Streams ==
  { <<"D", "T1", NL, NL, "D", "E", NL, NL>>,
    <<"D", "T1", NL, NL, "D", "T2", NL, NL, "D", "E", NL, NL>>,
    <<"D", "G", NL, NL, "D", "T1", NL, NL, "D", "E", NL, NL>>,
    <<"D", "T1", NL, NL>>,
    <<"D", "T1", NL, NL, "D", "X", NL, NL>>,
    <<"D", "T1", NL, NL, "D", "E", NL, NL, "D", "T2", NL, NL>>,
    <<>> }

\* request bodies a caller of POST /llm/stream may send
StreamRequests ==
  [llmId : {"llm2", "llm1", Null}, surfaces : {<<>>, <<"capsule.head">>}]

RECURSIVE Split(_)
\* String.prototype.split('\n'): the pieces between the newlines
Split(text) ==
  IF text = <<>> THEN << <<>> >>
  ELSE LET rest == Split(Tail(text)) IN
       IF Head(text) = NL
         THEN << <<>> >> \o rest
         ELSE << <<Head(text)>> \o rest[1] >> \o Tail(rest)

\* line.startsWith('data: ')
StartsWithData(line) == Len(line) >= 1 /\ line[1] = "D"

\* JSON.parse(line.slice(6)) succeeds
Parses(line) == Len(line) = 2 /\ line[2] \in JsonAtoms

InitStream ==
  /\ \E opts \in {<<>>} : RetryStart(opts)
  /\ currentSessionId \in {Null, "s1"}
  /\ req \in StreamRequests
  /\ hpc = "start"
  /\ httpStatus = 0
  /\ headersSent = FALSE
  /\ out = <<>>
  /\ resEnded = FALSE
  /\ compiles = 0
  /\ spc = "init"
  /\ connectTimeout = Unarmed
  /\ idleTimeout = Unarmed
  /\ aborted = FALSE
  /\ buffer = <<>>
  /\ lines = <<>>
  /\ chunkCount = 0
  /\ yielded = NoEvent
  /\ genErr = Null
  /\ fetches = 0
  /\ wire = <<>>
  /\ waited = 0
  /\ pulled = <<>>
  /\ TurnQuiet
  /\ ReaderQuiet

\* res.status(code).json({ error }) : a complete non-stream response
Reject(code) ==
  /\ httpStatus' = code
  /\ headersSent' = TRUE
  /\ resEnded' = TRUE
  /\ hpc' = "ended"

\* handleLLMStream: session check and request validation
HandleValidate ==
  /\ hpc = "start"
  /\ IF currentSessionId = Null THEN Reject(400)
     ELSE IF req.llmId # "llm2" THEN Reject(400)
     ELSE IF Len(req.surfaces) = 0 THEN Reject(400)
     ELSE /\ hpc' = "compile"
          /\ UNCHANGED <<httpStatus, headersSent, resEnded>>
  /\ UNCHANGED <<req, out, compiles, spc, connectTimeout, idleTimeout, aborted,
                 buffer, lines, chunkCount, yielded, genErr, fetches, wire>>
  /\ UNCHANGED <<sessVars, notStream, waited, pulled>>

\* handleLLMStream: compileCapsule, loadSystemPrompt, SSE headers, flushHeaders
HandleCompile ==
  /\ hpc = "compile"
  /\ compiles' = compiles + 1
  /\ httpStatus' = 200
  /\ headersSent' = TRUE
  /\ hpc' = "pull"
  /\ UNCHANGED <<req, out, resEnded, spc, connectTimeout, idleTimeout, aborted,
                 buffer, lines, chunkCount, yielded, genErr, fetches, wire>>
  /\ UNCHANGED <<sessVars, notStream, waited, pulled>>

\* streamLLM up to its await fetch: controller, connectTimeout, the request
StreamStart ==
  /\ hpc = "pull"
  /\ spc = "init"
  /\ connectTimeout' = LLM_CONNECT_TIMEOUT_MS
  /\ fetches' = fetches + 1
  /\ spc' = "connecting"
  /\ UNCHANGED <<req, hpc, httpStatus, headersSent, out, resEnded, compiles,
                 idleTimeout, aborted, buffer, lines, chunkCount, yielded, genErr, wire>>
  /\ waited' = 0
  /\ UNCHANGED <<sessVars, notStream, pulled>>

\* streamLLM: finally { if (idleTimeout) clearTimeout(idleTimeout); releaseLock }
Finally == idleTimeout' = Unarmed

\* fetch resolves: clearTimeout(connectTimeout), status check, resetIdleTimeout
StreamHeaders(ok) ==
  /\ spc = "connecting"
  /\ connectTimeout' = Unarmed
  /\ IF ok
       THEN /\ \E body \in Streams : wire' = body
            /\ idleTimeout' = LLM_STREAM_IDLE_TIMEOUT_MS
            /\ spc' = "reading"
            /\ UNCHANGED genErr
       ELSE /\ spc' = "threw"
            /\ genErr' = "llm-service error"
            /\ UNCHANGED <<wire, idleTimeout>>
  /\ UNCHANGED <<req, hpc, httpStatus, headersSent, out, resEnded, compiles,
                 aborted, buffer, lines, chunkCount, yielded, fetches>>
  /\ waited' = 0
  /\ UNCHANGED <<sessVars, notStream, pulled>>

\* fetch rejects (llm-service unreachable): the error leaves streamLLM as it is
StreamConnectError ==
  /\ spc = "connecting"
  /\ ~aborted
  /\ spc' = "threw"
  /\ genErr' = "fetch failed"
  /\ UNCHANGED <<req, hpc, httpStatus, headersSent, out, resEnded, compiles,
                 connectTimeout, idleTimeout, aborted, buffer, lines, chunkCount,
                 yielded, fetches, wire>>
  /\ UNCHANGED <<sessVars, notStream, waited, pulled>>

\* connectTimeout fires: controller.abort(); a pending fetch rejects
ConnectTimeoutFires ==
  /\ connectTimeout = 0
  /\ connectTimeout' = Unarmed
  /\ aborted' = TRUE
  /\ IF spc = "connecting"
       THEN spc' = "threw" /\ genErr' = "AbortError"
       ELSE UNCHANGED <<spc, genErr>>
  /\ UNCHANGED <<req, hpc, httpStatus, headersSent, out, resEnded, compiles,
                 idleTimeout, buffer, lines, chunkCount, yielded, fetches, wire>>
  /\ UNCHANGED <<sessVars, notStream, waited, pulled>>

\* a read loop that leaves the idle timer running on when a chunk arrives
StreamChunkKeepingIdleTimer ==
  /\ spc = "reading"
  /\ \E n \in 1..MaxChunk :
       /\ n <= Len(wire)
       /\ LET pieces == Split(buffer \o SubSeq(wire, 1, n)) IN
            /\ lines' = SubSeq(pieces, 1, Len(pieces) - 1)
            /\ buffer' = pieces[Len(pieces)]
       /\ wire' = SubSeq(wire, n + 1, Len(wire))
  /\ UNCHANGED idleTimeout
  /\ chunkCount' = chunkCount + 1
  /\ spc' = "lines"
  /\ UNCHANGED <<req, hpc, httpStatus, headersSent, out, resEnded, compiles,
                 connectTimeout, aborted, yielded, genErr, fetches>>
  /\ waited' = 0
  /\ UNCHANGED <<sessVars, notStream, pulled>>

\* reader.read() resolves with a chunk: resetIdleTimeout, decode, split
StreamChunk ==
  /\ spc = "reading"
  /\ \E n \in 1..MaxChunk :
       /\ n <= Len(wire)
       /\ LET pieces == Split(buffer \o SubSeq(wire, 1, n)) IN
            /\ lines' = SubSeq(pieces, 1, Len(pieces) - 1)
            /\ buffer' = pieces[Len(pieces)]
       /\ wire' = SubSeq(wire, n + 1, Len(wire))
  /\ idleTimeout' = LLM_STREAM_IDLE_TIMEOUT_MS
  /\ chunkCount' = chunkCount + 1
  /\ spc' = "lines"
  /\ UNCHANGED <<req, hpc, httpStatus, headersSent, out, resEnded, compiles,
                 connectTimeout, aborted, yielded, genErr, fetches>>
  /\ waited' = 0
  /\ UNCHANGED <<sessVars, notStream, pulled>>

\* for (const line of lines): yield a parsed 'data: ' line, skip any other
StreamLine ==
  /\ spc = "lines"
  /\ IF lines = <<>>
       THEN /\ spc' = "reading"
            /\ UNCHANGED <<lines, yielded, pulled>>
       ELSE /\ lines' = Tail(lines)
            /\ IF StartsWithData(Head(lines)) /\ Parses(Head(lines))
                 THEN /\ yielded' = ParseEvent(Head(lines)[2])
                      /\ pulled' = Append(pulled, ParseEvent(Head(lines)[2]))
                      /\ spc' = "yielded"
                 ELSE UNCHANGED <<spc, yielded, pulled>>
  /\ UNCHANGED <<req, hpc, httpStatus, headersSent, out, resEnded, compiles,
                 connectTimeout, idleTimeout, aborted, buffer, chunkCount, genErr,
                 fetches, wire>>
  /\ UNCHANGED <<sessVars, notStream, waited>>

\* reader.read() resolves with done: the loop ends, finally runs
StreamEnd ==
  /\ spc = "reading"
  /\ wire = <<>>
  /\ Finally
  /\ spc' = "returned"
  /\ UNCHANGED <<req, hpc, httpStatus, headersSent, out, resEnded, compiles,
                 connectTimeout, aborted, buffer, lines, chunkCount, yielded, genErr,
                 fetches, wire>>
  /\ UNCHANGED <<sessVars, notStream, waited, pulled>>

\* reader.read() rejects without an abort: catch rethrows, finally runs
StreamReadError ==
  /\ spc = "reading"
  /\ ~aborted
  /\ Finally
  /\ spc' = "threw"
  /\ genErr' = "read failed"
  /\ UNCHANGED <<req, hpc, httpStatus, headersSent, out, resEnded, compiles,
                 connectTimeout, aborted, buffer, lines, chunkCount, yielded,
                 fetches, wire>>
  /\ UNCHANGED <<sessVars, notStream, waited, pulled>>

\* idleTimeout fires: controller.abort(); a pending read rejects, catch maps it
IdleTimeoutFires ==
  /\ idleTimeout = 0
  /\ idleTimeout' = Unarmed
  /\ aborted' = TRUE
  /\ IF spc = "reading"
       THEN spc' = "threw" /\ genErr' = "LLM stream timed out"
       ELSE UNCHANGED <<spc, genErr>>
  /\ UNCHANGED <<req, hpc, httpStatus, headersSent, out, resEnded, compiles,
                 connectTimeout, buffer, lines, chunkCount, yielded, fetches, wire>>
  /\ UNCHANGED <<sessVars, notStream, waited, pulled>>

\* a catch block that starts the stream again instead of reporting the error
RelayCatchRetrying ==
  /\ hpc = "pull"
  /\ spc = "threw"
  /\ spc' = "init"
  /\ UNCHANGED <<req, hpc, httpStatus, headersSent, out, resEnded, compiles,
                 connectTimeout, idleTimeout, aborted, buffer, lines, chunkCount,
                 yielded, genErr, fetches, wire>>
  /\ UNCHANGED <<sessVars, notStream, waited, pulled>>

\* a catch block that answers with the JSON error whether or not headers are sent
HandleCatchAlwaysJson(message) ==
  /\ httpStatus' = 500
  /\ headersSent' = TRUE
  /\ UNCHANGED out
  /\ resEnded' = TRUE
  /\ hpc' = "ended"

\* handleLLMStream: catch (error): an SSE error event and res.end() once headers
\* are sent, res.status(500).json(...) otherwise
HandleCatch(message) ==
  /\ IF headersSent
       THEN /\ out' = Append(out, [token |-> Null, done |-> TRUE, error |-> message])
            /\ UNCHANGED <<httpStatus, headersSent>>
       ELSE /\ httpStatus' = 500
            /\ headersSent' = TRUE
            /\ UNCHANGED out
  /\ resEnded' = TRUE
  /\ hpc' = "ended"

\* handleLLMStream: compileCapsule or loadSystemPrompt throws, before any header
HandleCompileThrows ==
  /\ hpc = "compile"
  /\ compiles' = compiles + 1
  /\ genErr' = "compile failed"
  /\ HandleCatch("compile failed")
  /\ UNCHANGED <<req, spc, connectTimeout, idleTimeout, aborted, buffer, lines,
                 chunkCount, yielded, fetches, wire>>
  /\ UNCHANGED <<sessVars, notStream, waited, pulled>>

\* handleLLMStream: streamLLM rejects inside the for-await: catch (error)
RelayCatch ==
  /\ hpc = "pull"
  /\ spc = "threw"
  /\ HandleCatch(genErr)
  /\ spc' = "closed"
  /\ UNCHANGED <<req, compiles, connectTimeout, idleTimeout, aborted,
                 buffer, lines, chunkCount, yielded, genErr, fetches, wire>>
  /\ UNCHANGED <<sessVars, notStream, waited, pulled>>

\* a loop body that goes on forwarding after a done event
RelayWriteWithoutBreak ==
  /\ hpc = "pull"
  /\ spc = "yielded"
  /\ out' = Append(out, yielded)
  /\ yielded' = NoEvent
  /\ spc' = "lines"
  /\ UNCHANGED <<idleTimeout, resEnded, hpc>>
  /\ UNCHANGED <<req, httpStatus, headersSent, compiles, connectTimeout, aborted,
                 buffer, lines, chunkCount, genErr, fetches, wire>>
  /\ UNCHANGED <<sessVars, notStream, waited, pulled>>

\* handleLLMStream: loop body: res.write of the event, break on a done event
RelayWrite ==
  /\ hpc = "pull"
  /\ spc = "yielded"
  /\ out' = Append(out, yielded)
  /\ yielded' = NoEvent
  /\ IF yielded.done
       THEN /\ Finally
            /\ spc' = "closed"
            /\ resEnded' = TRUE
            /\ hpc' = "ended"
       ELSE /\ spc' = "lines"
            /\ UNCHANGED <<idleTimeout, resEnded, hpc>>
  /\ UNCHANGED <<req, httpStatus, headersSent, compiles, connectTimeout, aborted,
                 buffer, lines, chunkCount, genErr, fetches, wire>>
  /\ UNCHANGED <<sessVars, notStream, waited, pulled>>

\* handleLLMStream: the generator is exhausted, res.end()
RelayEnd ==
  /\ hpc = "pull"
  /\ spc = "returned"
  /\ resEnded' = TRUE
  /\ hpc' = "ended"
  /\ spc' = "closed"
  /\ UNCHANGED <<req, httpStatus, headersSent, out, compiles, connectTimeout,
                 idleTimeout, aborted, buffer, lines, chunkCount, yielded, genErr,
                 fetches, wire>>
  /\ UNCHANGED <<sessVars, notStream, waited, pulled>>

\* the armed timers of streamLLM
StreamTimers == {t \in {connectTimeout, idleTimeout} : t # Unarmed}

\* d ms pass while streamLLM awaits the network (or after it has finished);
\* no armed timer is overrun
AdvanceStream ==
  /\ spc \in {"connecting", "reading", "threw", "closed"}
  /\ StreamTimers # {}
  /\ \E d \in {StreamStepMs} \cup StreamTimers :
       /\ d > 0
       /\ \A t \in StreamTimers : d <= t
       /\ connectTimeout' = IF connectTimeout = Unarmed THEN Unarmed ELSE connectTimeout - d
       /\ idleTimeout' = IF idleTimeout = Unarmed THEN Unarmed ELSE idleTimeout - d
       /\ waited' = waited + d
  /\ UNCHANGED <<req, hpc, httpStatus, headersSent, out, resEnded, compiles, spc,
                 aborted, buffer, lines, chunkCount, yielded, genErr, fetches, wire>>
  /\ UNCHANGED <<sessVars, notStream, pulled>>

NextStream ==
  \/ HandleValidate
  \/ HandleCompile
  \/ HandleCompileThrows
  \/ StreamStart
  \/ \E ok \in BOOLEAN : StreamHeaders(ok)
  \/ StreamConnectError
  \/ ConnectTimeoutFires
  \/ StreamChunk
  \/ StreamLine
  \/ StreamEnd
  \/ StreamReadError
  \/ IdleTimeoutFires
  \/ RelayCatch
  \/ RelayWrite
  \/ RelayEnd
  \/ AdvanceStream

SpecStream == InitStream /\ [][NextStream]_vars

\* C10: a streaming call sends at most one request to llm-service, and exactly
\* one once streamLLM has started, whatever failure ends it
C10_StreamNeverRetried ==
  /\ fetches <= 1
  /\ spc # "init" => fetches = 1
  /\ (hpc = "ended" /\ httpStatus = 200) => fetches = 1

\* a stream that failed (error message relayed) after its single request
C10_Witness ==
  /\ hpc = "ended"
  /\ fetches = 1
  /\ genErr # Null
  /\ Len(out) >= 1
  /\ out[Len(out)].error = genErr

\* C11: while streamLLM waits for headers only the connect timer runs, armed
\* when the request was sent; from the headers on only the idle timer runs,
\* armed at the headers and set back to the full idle window by every chunk;
\* the shared signal is aborted exactly when the wait for headers has lasted
\* the connect window or the wait for the next chunk has lasted the idle window
C11_TimerDiscipline ==
  /\ spc = "connecting" =>
       /\ connectTimeout = LLM_CONNECT_TIMEOUT_MS - waited
       /\ idleTimeout = Unarmed
       /\ ~aborted
  /\ spc \in {"reading", "lines", "yielded"} =>
       /\ connectTimeout = Unarmed
       /\ idleTimeout = LLM_STREAM_IDLE_TIMEOUT_MS - waited
       /\ ~aborted
  /\ spc \in {"lines", "yielded"} => idleTimeout = LLM_STREAM_IDLE_TIMEOUT_MS
  /\ aborted =>
       \/ chunkCount = 0 /\ waited = LLM_CONNECT_TIMEOUT_MS
       \/ genErr = "LLM stream timed out" /\ waited = LLM_STREAM_IDLE_TIMEOUT_MS
  /\ genErr = "AbortError" => aborted /\ waited = LLM_CONNECT_TIMEOUT_MS
  /\ genErr = "LLM stream timed out" => aborted /\ waited = LLM_STREAM_IDLE_TIMEOUT_MS

\* a stream aborted by the idle timer after a chunk had arrived
C11_Witness ==
  /\ aborted
  /\ genErr = "LLM stream timed out"
  /\ chunkCount >= 1
  /\ waited = LLM_STREAM_IDLE_TIMEOUT_MS

\* the errors with which streamLLM ends when its signal was aborted: the
\* rejection of the aborted fetch, and the message its catch block substitutes
TimeoutReports == {"AbortError", "LLM stream timed out"}

\* C12: a streamLLM call ended by its cancellation signal reports a connect
\* timeout when no chunk had been read and an idle timeout when at least one
\* chunk had been read, the two reports being different
C12_TimeoutReportsDistinguished ==
  (aborted /\ genErr \in TimeoutReports) =>
     /\ chunkCount = 0 => genErr = "AbortError"
     /\ chunkCount >= 1 => genErr = "LLM stream timed out"

\* the messages written by the for-await loop of handleLLMStream: all of out
\* but the message its catch block has appended
Forwarded ==
  IF hpc = "ended" /\ genErr # Null /\ httpStatus = 200
    THEN SubSeq(out, 1, Len(out) - 1)
    ELSE out

\* C14: the relay has written one message for every event streamLLM has
\* yielded, in the order yielded, and at most the one event just yielded is
\* not written yet; a done event is the last message forwarded, and once it
\* is forwarded the response is ended
C14_RelayOneMessagePerEvent ==
  /\ spc = "yielded" => pulled = Forwarded \o <<yielded>>
  /\ spc # "yielded" => pulled = Forwarded
  /\ \A i \in 1..(Len(Forwarded) - 1) : ~Forwarded[i].done
  /\ (Forwarded # <<>> /\ Forwarded[Len(Forwarded)].done) => resEnded /\ hpc = "ended"
  /\ resEnded => hpc = "ended"

\* a token and the done event forwarded and the response ended while the body
\* still holds a record behind the done event
C14_Witness ==
  /\ hpc = "ended"
  /\ resEnded
  /\ out = <<ParseEvent("T1"), ParseEvent("E")>>
  /\ Len(wire) + Len(lines) + Len(buffer) > 0

\* C15: when the relay has caught an exception after its headers were sent
\* (streamLLM was started), what it has written is the events forwarded
\* until then followed by exactly one message with done = true and the error,
\* and the response is ended with its status 200; when it has caught one before
\* its headers were sent, the response is the status 500 JSON answer and no
\* stream message has been written; in both cases the handler has ended
C15_RelayErrorReporting ==
  /\ spc = "threw" => hpc = "pull" /\ ~resEnded
  /\ (hpc = "ended" /\ genErr # Null /\ fetches = 1) =>
       /\ httpStatus = 200
       /\ out = pulled \o <<[token |-> Null, done |-> TRUE, error |-> genErr]>>
       /\ resEnded
  /\ (hpc = "ended" /\ genErr # Null /\ fetches = 0) =>
       /\ httpStatus = 500
       /\ out = <<>>
       /\ resEnded

\* a read failure after a token was forwarded: the token, then the error message
C15_Witness ==
  /\ hpc = "ended"
  /\ genErr = "read failed"
  /\ out = <<ParseEvent("T1"), [token |-> Null, done |-> TRUE, error |-> "read failed"]>>
  /\ resEnded

(***************************************************************************)
(* PART 3 - the turn lifecycle: capsule-compiler handlers (turn, session,  *)
(* surface, llm-process, llm-stream) driven by aios-chat handleTurn        *)
(***************************************************************************)

\* Turns begun in one behaviour before the chat panels stop sending messages
MaxTurns == 2

\* sessions that POST /session/create may create in one behaviour
MaxSessions == 2

\* the two chat frontends the extension registers; each runs handleUserMessage
\* for the messages of its own webview
Handlers == {"ChatPanel", "ChatViewProvider"}

\* the text the webview sends once n - 1 Turns have been begun (its send()
\* drops empty text)
UserInputOf(n) == <<"u1", "u2", "u3", "u4", "u5", "u6", "u7", "u8">>[n]

\* generateSessionId: the n-th session id handed out
SessionIdOf(n) == IF n = 1 THEN "s1" ELSE IF n = 2 THEN "s2" ELSE "s3"

\* the turnId given to the n-th Turn
TurnIdOf(n) == <<"t1", "t2", "t3", "t4", "t5", "t6", "t7", "t8">>[n]

\* handlers/surface: const VALID_SURFACES
VALID_SURFACES == {"capsule", "trace", "digr", "session-state", "intuition-outline"}

\* handlers/turn handleTurnEmit: const validEvents
validEvents == {"extension-a.complete", "extension-b.complete", "extension-c.complete"}

\* an error as thrown in aios-chat: its message and whether a stage of the turn
\* or the failTurn call in the catch block produced it
Error(msg, from) == [msg |-> msg, from |-> from]

NoErr == [msg |-> Null, from |-> Null]

\* fileService getEmptySurface
getEmptySurface(surfaceId) ==
  CASE surfaceId = "capsule" ->
         [head |-> [framing |-> Null, selectedTopics |-> <<>>, turnContext |-> Null,
                    userInput |-> Null],
          body |-> [recentTurns |-> <<>>],
          tail |-> [goals |-> <<>>, trajectory |-> Null, pulse |-> Null, planning |-> Null]]
    [] surfaceId = "trace" ->
         [turnId |-> Null, userInput |-> Null, llm1Output |-> Null, llm2Output |-> Null,
          quad |-> Null, optimized |-> Null, intent |-> Null, timestamp |-> Null]
    [] surfaceId = "digr" ->
         [decisions |-> <<>>, insights |-> <<>>, goals |-> <<>>, relationships |-> <<>>,
          milestone |-> Null, contribution |-> Null, patterns |-> <<>>, refinements |-> <<>>]
    [] surfaceId = "session-state" ->
         [lastTurnId |-> Null, turnCount |-> 0, activeGoals |-> <<>>, trajectory |-> Null]
    [] surfaceId = "intuition-outline" ->
         [intuitions |-> <<>>, planning |-> Null, pulse |-> Null, suggestedFocus |-> Null]

\* the JS object {}
EmptyObject == <<>>

\* A surface document is YAML text. It is modelled by its form and, for a text
\* that holds one YAML document, the value that document denotes: "document" is
\* what yaml.stringify produces, "blank" is a text without content (empty, or
\* comments only), "torn" is a text that is not YAML.
yamlStringify(value) == [form |-> "document", root |-> value]

BlankText == [form |-> "blank", root |-> EmptyObject]

TornText == [form |-> "torn", root |-> EmptyObject]

\* yaml.parse(text) throws
yamlParseThrows(text) == text.form = "torn"

\* yaml.parse(text) || {} : a blank text parses to null, which is falsy
yamlParseOrEmpty(text) == IF text.form = "blank" THEN EmptyObject ELSE text.root

\* a createSession that writes the trace shape into every document
createSessionAllTrace ==
  [surfaceId \in VALID_SURFACES |-> yamlStringify(getEmptySurface("trace"))]

\* fileService createSession: one document per surface, each the empty shape
createSession == [surfaceId \in VALID_SURFACES |-> yamlStringify(getEmptySurface(surfaceId))]

\* a strategy table in which trace documents are merged
StrategiesMergingTrace(surfaceId) ==
  CASE surfaceId = "trace" -> "shallow-merge"
    [] surfaceId = "digr" -> "array-append"
    [] surfaceId = "intuition-outline" -> "overwrite"
    [] surfaceId = "capsule" -> "shallow-merge"
    [] surfaceId = "session-state" -> "shallow-merge"

\* fileService: const SURFACE_STRATEGIES
SURFACE_STRATEGIES(surfaceId) ==
  CASE surfaceId = "trace" -> "overwrite"
    [] surfaceId = "digr" -> "array-append"
    [] surfaceId = "intuition-outline" -> "overwrite"
    [] surfaceId = "capsule" -> "shallow-merge"
    [] surfaceId = "session-state" -> "shallow-merge"

\* a merge that also merges the fields of the capsule sections (deep merge)
SpreadDeep(existing, content) ==
  [k \in DOMAIN existing \cup DOMAIN content |->
     IF k \in DOMAIN content
       THEN IF k \in DOMAIN existing /\ k \in {"head", "body", "tail"}
              THEN [j \in DOMAIN existing[k] \cup DOMAIN content[k] |->
                      IF j \in DOMAIN content[k] THEN content[k][j] ELSE existing[k][j]]
              ELSE content[k]
       ELSE existing[k]]

\* JS object spread { ...existing, ...content }
Spread(existing, content) ==
  [k \in DOMAIN existing \cup DOMAIN content |->
     IF k \in DOMAIN content THEN content[k] ELSE existing[k]]

\* a field of a JS object, or the fallback when the object lacks it (x.f || [])
FieldOr(obj, f, fallback) == IF f \in DOMAIN obj THEN obj[f] ELSE fallback

\* incoming.f ?? existing.f ?? null
Coalesce(existing, incoming, f) ==
  IF f \in DOMAIN incoming /\ incoming[f] # Null THEN incoming[f]
  ELSE IF f \in DOMAIN existing THEN existing[f] ELSE Null

\* a merge that puts the incoming decisions in front of the existing ones
mergeDigrArraysIncomingFirst(existing, incoming) ==
  [decisions |-> FieldOr(incoming, "decisions", <<>>) \o FieldOr(existing, "decisions", <<>>),
   insights |-> FieldOr(existing, "insights", <<>>) \o FieldOr(incoming, "insights", <<>>),
   goals |-> FieldOr(existing, "goals", <<>>) \o FieldOr(incoming, "goals", <<>>),
   relationships |-> FieldOr(existing, "relationships", <<>>)
                       \o FieldOr(incoming, "relationships", <<>>),
   milestone |-> Coalesce(existing, incoming, "milestone"),
   contribution |-> Coalesce(existing, incoming, "contribution"),
   patterns |-> FieldOr(existing, "patterns", <<>>) \o FieldOr(incoming, "patterns", <<>>),
   refinements |-> FieldOr(existing, "refinements", <<>>)
                     \o FieldOr(incoming, "refinements", <<>>)]

\* fileService mergeDigrArrays
mergeDigrArrays(existing, incoming) ==
  [decisions |-> FieldOr(existing, "decisions", <<>>) \o FieldOr(incoming, "decisions", <<>>),
   insights |-> FieldOr(existing, "insights", <<>>) \o FieldOr(incoming, "insights", <<>>),
   goals |-> FieldOr(existing, "goals", <<>>) \o FieldOr(incoming, "goals", <<>>),
   relationships |-> FieldOr(existing, "relationships", <<>>)
                       \o FieldOr(incoming, "relationships", <<>>),
   milestone |-> Coalesce(existing, incoming, "milestone"),
   contribution |-> Coalesce(existing, incoming, "contribution"),
   patterns |-> FieldOr(existing, "patterns", <<>>) \o FieldOr(incoming, "patterns", <<>>),
   refinements |-> FieldOr(existing, "refinements", <<>>)
                     \o FieldOr(incoming, "refinements", <<>>)]

\* fileService writeSurface: the document written, from what was read before
finalContent(surfaceId, existing, content) ==
  CASE SURFACE_STRATEGIES(surfaceId) = "overwrite" -> content
    [] SURFACE_STRATEGIES(surfaceId) = "shallow-merge" -> Spread(existing, content)
    [] SURFACE_STRATEGIES(surfaceId) = "array-append" -> mergeDigrArrays(existing, content)

\* TurnSequencer.getContext: the current Turn
NoTurn == [turnId |-> Null, sessionId |-> Null, userInput |-> Null,
           extensionChain |-> <<>>, status |-> Null, error |-> Null]

getContext == IF turns = <<>> THEN NoTurn ELSE turns[Len(turns)]

\* TurnSequencer: a Turn is in flight
TurnActive == getContext.status = "active"

\* message of the error TurnSequencer.beginTurn throws on a conflict
TurnConflict == "Turn already in progress"

\* what is kept of a Turn once a new Turn has replaced it
Superseded(turn) == [NoTurn EXCEPT !.turnId = turn.turnId, !.status = turn.status]

\* TurnSequencer.beginTurn: the Turn list after a successful call
beginTurn(sessionId, userInput, extensionChain) ==
  Append([i \in DOMAIN turns |-> Superseded(turns[i])], [turnId |-> TurnIdOf(Len(turns) + 1), sessionId |-> sessionId,
                 userInput |-> userInput, extensionChain |-> extensionChain,
                 status |-> "active", error |-> Null])

\* TurnSequencer.emit of a completion event: Active -> Completed; the Turn list
\* is left as it is (and the call raises) when no Turn is active
emit(event) ==
  IF TurnActive THEN [turns EXCEPT ![Len(turns)].status = "completed"] ELSE turns

\* TurnSequencer.failTurn: Active -> Failed, error = message; the Turn list is
\* left as it is (and the call raises) when no Turn is active
failTurn(message) ==
  IF TurnActive
    THEN [turns EXCEPT ![Len(turns)].status = "failed", ![Len(turns)].error = message]
    ELSE turns

\* handleTurnBegin: the checks of req.body before beginTurn is called
BeginValidation(body) ==
  IF body.sessionId = Null THEN "MISSING_SESSION_ID"
  ELSE IF body.userInput = Null THEN "MISSING_USER_INPUT"
  ELSE "ok"

\* a catch block that reports every beginTurn error as TURN_BEGIN_FAILED
BeginErrorStatusAlways500(message) == 500

\* handleTurnBegin: catch (error): 409 TURN_IN_PROGRESS or 500 TURN_BEGIN_FAILED
BeginErrorStatus(message) == IF message = TurnConflict THEN 409 ELSE 500

\* locals of a chat panel call that is not running handleTurn
IdleExec ==
  [pc |-> "idle", sessionId |-> Null, userInput |-> Null, turnId |-> Null,
   llm1Result |-> Null, llm3Result |-> Null, fullResponse |-> <<>>, sse |-> <<>>,
   existingTurns |-> <<>>, http |-> 0, error |-> NoErr, thrown |-> NoErr,
   failTurnCalls |-> <<>>, trail |-> <<>>, compiled |-> <<>>]

InitTurn ==
  /\ \E opts \in {<<>>} : RetryStart(opts)
  /\ StreamQuiet
  /\ currentSessionId = SessionIdOf(1)
  /\ files = [sid \in {SessionIdOf(1)} |-> createSession]
  /\ turns = <<>>
  /\ exec = [h \in Handlers |-> IdleExec]
  /\ ReaderQuiet
  /\ log = <<>>
  /\ got = NoRead
  /\ CapsuleQuiet

\* texts LLM1 may answer with, as lines of a tag and a value
Llm1Texts == { <<[tag |-> "FRAMING:", value |-> "strategic"],
                 [tag |-> "TOPICS:", value |-> <<"pricing">>]>> }

\* texts LLM3 may answer with, as lines of a tag and a value
Llm3Texts == { <<[tag |-> "TURN_SUMMARY:", value |-> "sum"]>> }

\* what the relay of POST /llm/stream may send after its SSE headers: token
\* events, then a done event, an error event, or nothing more
RelayOutputs ==
  { toks \o last :
      toks \in { <<ParseEvent("T1"), ParseEvent("T2")>> },
      last \in { <<ParseEvent("E")>>, <<ParseEvent("X")>>, <<>> } }

\* value of the last line of raw carrying the tag, or the default
TagValue(raw, tag, default) ==
  LET hits == {i \in 1..Len(raw) : raw[i].tag = tag} IN
    IF hits = {} THEN default
    ELSE raw[CHOOSE i \in hits : \A j \in hits : j <= i].value

\* toonParser parseLLM1Output
parseLLM1Output(raw) ==
  [framing |-> TagValue(raw, "FRAMING:", "exploratory"),
   topics |-> TagValue(raw, "TOPICS:", <<>>),
   context |-> TagValue(raw, "CONTEXT:", "")]

\* toonParser parseLLM3Output
parseLLM3Output(raw) ==
  [turnSummary |-> TagValue(raw, "TURN_SUMMARY:", ""),
   conversationalNextStep |-> TagValue(raw, "CONVERSATIONAL_NEXT_STEP:", "")]

\* a slice that keeps the first n entries: slice(0, n)
SliceFirst(seq, n) ==
  IF Len(seq) <= n THEN seq ELSE SubSeq(seq, 1, n)

\* Array.prototype.slice(-n)
SliceLast(seq, n) ==
  IF Len(seq) <= n THEN seq ELSE SubSeq(seq, Len(seq) - n + 1, Len(seq))

\* handleTurn: the content argument of each of its four updateSurface calls
UpdateContent(e, key) ==
  CASE key = "head" ->
         [head |-> [framing |-> parseLLM1Output(e.llm1Result).framing,
                    selectedTopics |-> parseLLM1Output(e.llm1Result).topics,
                    turnContext |-> parseLLM1Output(e.llm1Result).context,
                    userInput |-> e.userInput]]
    [] key = "trace" ->
         [turnId |-> e.turnId, userInput |-> e.userInput, llm1Output |-> e.llm1Result,
          llm2Output |-> e.fullResponse, timestamp |-> "ts"]
    [] key = "body" ->
         [body |-> [recentTurns |->
            SliceLast(Append(e.existingTurns,
                             [turnId |-> e.turnId, userInput |-> e.userInput,
                              responsePreview |-> e.fullResponse,
                              summary |-> parseLLM3Output(e.llm3Result).turnSummary,
                              timestamp |-> "ts"]), 5)]]
    [] key = "tail" ->
         [tail |-> [goals |-> <<>>,
                    trajectory |-> <<"Turn", e.turnId,
                                     parseLLM3Output(e.llm3Result).turnSummary>>,
                    pulse |-> "Active"]]

\* the surface each of handleTurn's updateSurface calls names
UpdateSurfaceId(key) == IF key = "trace" THEN "trace" ELSE "capsule"

\* handleTurn: where control goes after each awaited call returns
NextPc(pc) ==
  CASE pc = "begin" -> "llm1"
    [] pc = "llm1" -> "head"
    [] pc = "head" -> "stream"
    [] pc = "stream" -> "trace"
    [] pc = "trace" -> "llm3"
    [] pc = "llm3" -> "getCapsule"
    [] pc = "getCapsule" -> "body"
    [] pc = "body" -> "tail"
    [] pc = "tail" -> "emit"
    [] pc = "emit" -> "returned"

\* handleTurn has exited: what its caller and the properties below can still see
Exited(e, pc) ==
  [IdleExec EXCEPT !.pc = pc, !.turnId = e.turnId, !.http = e.http, !.error = e.error,
                   !.thrown = e.thrown, !.failTurnCalls = e.failTurnCalls]

\* handleTurn: catch (error) is entered with the error of the failed call; the
\* catch block uses none of the other locals
Throw(e, msg) ==
  [IdleExec EXCEPT !.pc = "catch", !.turnId = e.turnId, !.http = e.http,
                   !.error = Error(msg, "stage")]

\* chatPanel handleUserMessage: handleTurn(this.sessionId, text, ...) is called
Start(h) ==
  /\ exec[h].pc = "idle"
  /\ Len(turns) < MaxTurns
  /\ exec' = [exec EXCEPT ![h] = [IdleExec EXCEPT !.pc = "begin",
                                                   !.sessionId = SessionIdOf(1),
                                                   !.userInput = UserInputOf(Len(turns) + 1)]]
  /\ UNCHANGED <<turns, files, sessVars, notTurn>>

\* chatPanel handleUserMessage: the loop over handleTurn is over (done is
\* posted) or its catch has posted the error; the call ends
HandleUserMessageEnds(h) ==
  /\ exec[h].pc \in {"returned", "raised"}
  /\ exec' = [exec EXCEPT ![h] = IdleExec]
  /\ UNCHANGED <<turns, files, sessVars, notTurn>>

\* a POST /turn/begin that goes on answering 409 after the Turn has failed
TurnBeginRejectingAfterFailure(h) ==
  /\ exec[h].pc = "begin"
  /\ LET e == exec[h]
         body == [sessionId |-> e.sessionId, userInput |-> e.userInput,
                  extensionChain |-> <<"extension-a">>]
     IN IF BeginValidation(body) # "ok"
          THEN /\ exec' = [exec EXCEPT ![h] = Throw([e EXCEPT !.http = 400],
                                                    BeginValidation(body))]
               /\ UNCHANGED turns
          ELSE IF getContext.status \in {"active", "failed"}
            THEN /\ exec' = [exec EXCEPT ![h] =
                       Throw([e EXCEPT !.http = BeginErrorStatus(TurnConflict)], TurnConflict)]
                 /\ UNCHANGED turns
            ELSE /\ turns' = beginTurn(body.sessionId, body.userInput, body.extensionChain)
                 /\ exec' = [exec EXCEPT ![h] =
                       [e EXCEPT !.http = 201, !.turnId = TurnIdOf(Len(turns) + 1),
                                 !.pc = NextPc("begin")]]
  /\ UNCHANGED <<files, sessVars, notTurn>>

\* client.beginTurn -> POST /turn/begin -> handleTurnBegin
TurnBegin(h) ==
  /\ exec[h].pc = "begin"
  /\ LET e == exec[h]
         body == [sessionId |-> e.sessionId, userInput |-> e.userInput,
                  extensionChain |-> <<"extension-a">>]
     IN IF BeginValidation(body) # "ok"
          THEN /\ exec' = [exec EXCEPT ![h] = Throw([e EXCEPT !.http = 400],
                                                    BeginValidation(body))]
               /\ UNCHANGED turns
          ELSE IF TurnActive
            THEN /\ exec' = [exec EXCEPT ![h] =
                       Throw([e EXCEPT !.http = BeginErrorStatus(TurnConflict)], TurnConflict)]
                 /\ UNCHANGED turns
            ELSE /\ turns' = beginTurn(body.sessionId, body.userInput, body.extensionChain)
                 /\ exec' = [exec EXCEPT ![h] =
                       [e EXCEPT !.http = 201, !.turnId = TurnIdOf(Len(turns) + 1),
                                 !.pc = NextPc("begin")]]
  /\ UNCHANGED <<files, sessVars, notTurn>>

\* the await fetch of a client call rejects: the request did not get through
FetchRejects(h) ==
  /\ exec[h].pc \in {"begin", "llm1", "head", "stream", "trace", "llm3", "getCapsule",
                     "body", "tail", "emit"}
  /\ exec' = [exec EXCEPT ![h] = Throw([exec[h] EXCEPT !.http = 0], "fetch failed")]
  /\ UNCHANGED <<turns, files, sessVars, notTurn>>

\* a POST /turn/fail that marks the current Turn failed whatever its status
handleTurnFailAnyStatus(error) ==
  IF error = Null \/ turns = <<>> THEN turns
  ELSE [turns EXCEPT ![Len(turns)].status = "failed", ![Len(turns)].error = error]

\* handleTurnFail: the Turn list after POST /turn/fail with this error text
handleTurnFail(error) == IF error = Null THEN turns ELSE failTurn(error)

\* handleTurn: catch: await client.failTurn(message); throw error
Catch(h) ==
  /\ exec[h].pc = "catch"
  /\ turns' = handleTurnFail(exec[h].error.msg)
  /\ exec' = [exec EXCEPT ![h] =
       Exited([exec[h] EXCEPT !.failTurnCalls = Append(@, exec[h].error.msg),
                              !.thrown = exec[h].error], "raised")]
  /\ UNCHANGED <<files, sessVars, notTurn>>

\* handleTurn: catch: the fetch inside client.failTurn rejects
CatchFetchRejects(h) ==
  /\ exec[h].pc = "catch"
  /\ exec' = [exec EXCEPT ![h] =
       Exited([exec[h] EXCEPT !.failTurnCalls = Append(@, exec[h].error.msg),
                              !.thrown = Error("fetch failed", "failTurn")], "raised")]
  /\ UNCHANGED <<turns, files, sessVars, notTurn>>

\* handlers/llm-process: const VALID_LLM_IDS
VALID_LLM_IDS == {"llm1", "llm3", "llm3a", "llm3b", "llm4a", "llm4b"}

\* messages of the errors callLLM may end with after its retries
LLMFailures == {"llm-service error: 500", "This operation was aborted"}

\* handleLLMProcess: catch: the status chosen from the error message
ProcessErrorStatus(message) ==
  IF message = "llm-service error: 500" THEN 502
  ELSE IF message = "This operation was aborted" THEN 504
  ELSE 500

\* handleTurn: the surfaces argument of its callLLM and streamLLM calls
SurfacesFor(llmId) ==
  CASE llmId = "llm1" -> {"capsule.head", "capsule.body", "capsule.tail", "intuition-outline"}
    [] llmId = "llm2" -> {"capsule.head", "capsule.body", "capsule.tail"}
    [] llmId = "llm3" -> {"capsule.head", "trace"}

\* variablePath.split('.')[0]
PathSurface(path) ==
  IF path \in {"capsule.head", "capsule.body", "capsule.tail"} THEN "capsule" ELSE path

\* variablePath.split('.').slice(1): the one field named, or none
PathField(path) ==
  CASE path = "capsule.head" -> "head"
    [] path = "capsule.body" -> "body"
    [] path = "capsule.tail" -> "tail"
    [] OTHER -> Null

\* capsuleService resolveVariable: the content found at the path
resolveVariable(sessionId, variablePath) ==
  LET surfaceId == PathSurface(variablePath)
      field == PathField(variablePath)
  IN IF sessionId \notin DOMAIN files \/ surfaceId \notin DOMAIN files[sessionId] THEN Null
     ELSE IF files[sessionId][surfaceId].form # "document" THEN Null
     ELSE IF field = Null THEN files[sessionId][surfaceId].root
     ELSE IF field \in DOMAIN files[sessionId][surfaceId].root
       THEN files[sessionId][surfaceId].root[field]
     ELSE Null

\* capsuleService compileCapsule: the content resolved for every path
compileCapsule(sessionId, variablePaths) ==
  [path \in variablePaths |-> resolveVariable(sessionId, path)]

\* handleTurn: the llmId of the call made at this position
LlmIdAt(pc) == IF pc = "llm1" THEN "llm1" ELSE IF pc = "llm3" THEN "llm3" ELSE "llm2"

\* one more entry on the record of what was done for this handleTurn call
Trail(e, ev, what) == [e EXCEPT !.trail = Append(@, <<ev, what>>)]

\* handleLLMProcess up to compileCapsule: the capsule is compiled from the
\* server's current session
Compiled(e, llmId) ==
  [Trail(e, "compile", llmId) EXCEPT
     !.compiled = compileCapsule(currentSessionId, SurfacesFor(llmId))]

\* client.callLLM -> POST /llm/process -> handleLLMProcess: callLLM answered;
\* res.json(response); the client returns the parsed body
ProcessReturn(h) ==
  /\ exec[h].pc \in {"llm1", "llm3"}
  /\ currentSessionId # Null
  /\ LlmIdAt(exec[h].pc) \in VALID_LLM_IDS
  /\ \E text \in (IF exec[h].pc = "llm1" THEN Llm1Texts ELSE Llm3Texts) :
       exec' = [exec EXCEPT ![h] =
         [Compiled(exec[h], LlmIdAt(exec[h].pc)) EXCEPT
            !.http = 200,
            !.llm1Result = IF exec[h].pc = "llm1" THEN text ELSE @,
            !.llm3Result = IF exec[h].pc = "llm3" THEN text ELSE @,
            !.pc = NextPc(exec[h].pc)]]
  /\ UNCHANGED <<turns, files, sessVars, notTurn>>

\* handleLLMProcess: callLLM threw; catch answers 502 / 504 / 500; the client throws
ProcessFails(h) ==
  /\ exec[h].pc \in {"llm1", "llm3"}
  /\ currentSessionId # Null
  /\ LlmIdAt(exec[h].pc) \in VALID_LLM_IDS
  /\ \E message \in LLMFailures :
       exec' = [exec EXCEPT ![h] =
         Throw([Compiled(exec[h], LlmIdAt(exec[h].pc)) EXCEPT
                  !.http = ProcessErrorStatus(message)], message)]
  /\ UNCHANGED <<turns, files, sessVars, notTurn>>

\* workspace.fs.readFile(uri) resolves: the document exists
FileExists(sessionId, surfaceId) ==
  sessionId \in DOMAIN files /\ surfaceId \in DOMAIN files[sessionId]

\* fileService readSurface: yaml.parse(text) || {}, or the empty shape when
\* readFile or yaml.parse throws
readSurface(sessionId, surfaceId) ==
  IF FileExists(sessionId, surfaceId) /\ ~yamlParseThrows(files[sessionId][surfaceId])
    THEN yamlParseOrEmpty(files[sessionId][surfaceId])
    ELSE getEmptySurface(surfaceId)

\* fileService writeSurface: let existing = {}; for merge/append strategies
\* yaml.parse(text) || {}, or {} when readFile or yaml.parse throws
ReadExisting(sessionId, surfaceId) ==
  IF SURFACE_STRATEGIES(surfaceId) = "overwrite" THEN EmptyObject
  ELSE IF FileExists(sessionId, surfaceId) /\ ~yamlParseThrows(files[sessionId][surfaceId])
    THEN yamlParseOrEmpty(files[sessionId][surfaceId])
    ELSE EmptyObject

\* fileService writeSurface: the files after the merge and writeFile
writeSurface(sessionId, surfaceId, content) ==
  [files EXCEPT ![sessionId] =
     [k \in DOMAIN files[sessionId] \cup {surfaceId} |->
        IF k = surfaceId
          THEN yamlStringify(finalContent(surfaceId, ReadExisting(sessionId, surfaceId),
                                          content))
          ELSE files[sessionId][k]]]

\* client.updateSurface -> POST /surface/update -> updateSurface: await
\* writeSurface, then success: true; the client's await returns
UpdateSurface(h) ==
  /\ exec[h].pc \in {"head", "trace", "body", "tail"}
  /\ currentSessionId # Null
  /\ UpdateSurfaceId(exec[h].pc) \in VALID_SURFACES
  /\ files' = writeSurface(currentSessionId, UpdateSurfaceId(exec[h].pc),
                           UpdateContent(exec[h], exec[h].pc))
  /\ exec' = [exec EXCEPT ![h] =
       [Trail(exec[h], "write", exec[h].pc) EXCEPT
          !.http = 200, !.pc = NextPc(exec[h].pc)]]
  /\ UNCHANGED <<turns, sessVars, notTurn>>

\* writeSurface rejects (storage error): 500 SURFACE_WRITE_FAILED, the client throws
SurfaceWriteFails(h) ==
  /\ exec[h].pc \in {"head", "trace", "body", "tail"}
  /\ currentSessionId # Null
  /\ exec' = [exec EXCEPT ![h] = Throw([exec[h] EXCEPT !.http = 500], "SURFACE_WRITE_FAILED")]
  /\ UNCHANGED <<turns, files, sessVars, notTurn>>

\* client.streamLLM -> POST /llm/stream -> handleLLMStream: capsule compiled,
\* SSE headers sent; what the relay goes on to send is fixed by llm-service
StreamRequest(h) ==
  /\ exec[h].pc = "stream"
  /\ currentSessionId # Null
  /\ \E events \in RelayOutputs :
       exec' = [exec EXCEPT ![h] =
         [Compiled(exec[h], "llm2") EXCEPT !.http = 200, !.sse = events, !.pc = "tokens"]]
  /\ UNCHANGED <<turns, files, sessVars, notTurn>>

\* handleTurn's for await loop has ended (after a done event, an error event,
\* or the close of the body): the code after it runs next
StreamLoopEnds(e, how) ==
  [Trail(e, "stream", how) EXCEPT !.sse = <<>>, !.pc = NextPc("stream")]

\* client.streamLLM reads one 'data:' message: a token is yielded and appended
\* to fullResponse, a done message ends the iteration
StreamToken(h) ==
  /\ exec[h].pc = "tokens"
  /\ exec[h].sse # <<>>
  /\ LET ev == Head(exec[h].sse) IN
       exec' = [exec EXCEPT ![h] =
         IF ev.done
           THEN StreamLoopEnds(exec[h], IF ev.error # Null THEN "error" ELSE "done")
         ELSE [exec[h] EXCEPT
                 !.sse = Tail(@),
                 !.fullResponse = IF ev.token \notin {Null, ""}
                                    THEN Append(@, ev.token) ELSE @]]
  /\ UNCHANGED <<turns, files, sessVars, notTurn>>

\* client.streamLLM: reader.read() reports the end of the response body
StreamClose(h) ==
  /\ exec[h].pc = "tokens"
  /\ exec[h].sse = <<>>
  /\ exec' = [exec EXCEPT ![h] = StreamLoopEnds(exec[h], "closed")]
  /\ UNCHANGED <<turns, files, sessVars, notTurn>>

\* client.streamLLM: reader.read() rejects (connection lost)
StreamReadRejects(h) ==
  /\ exec[h].pc = "tokens"
  /\ exec' = [exec EXCEPT ![h] = Throw([exec[h] EXCEPT !.sse = <<>>], "read failed")]
  /\ UNCHANGED <<turns, files, sessVars, notTurn>>

\* client.getSurface('capsule') -> POST /surface/get -> getSurface -> readSurface
GetCapsule(h) ==
  /\ exec[h].pc = "getCapsule"
  /\ currentSessionId # Null
  /\ LET currentCapsule == readSurface(currentSessionId, "capsule") IN
       exec' = [exec EXCEPT ![h] =
         [exec[h] EXCEPT !.http = 200, !.pc = NextPc("getCapsule"),
            !.existingTurns =
               IF "body" \in DOMAIN currentCapsule
                    /\ "recentTurns" \in DOMAIN currentCapsule.body
                 THEN currentCapsule.body.recentTurns ELSE <<>>]]
  /\ UNCHANGED <<turns, files, sessVars, notTurn>>

\* client.emitTurnEvent -> POST /turn/emit -> handleTurnEmit
TurnEmit(h) ==
  /\ exec[h].pc = "emit"
  /\ LET event == "extension-a.complete" IN
       IF event \notin validEvents
         THEN /\ exec' = [exec EXCEPT ![h] = Throw([exec[h] EXCEPT !.http = 400],
                                                   "INVALID_EVENT")]
              /\ UNCHANGED turns
         ELSE IF ~TurnActive
           THEN /\ exec' = [exec EXCEPT ![h] = Throw([exec[h] EXCEPT !.http = 500],
                                                     "TURN_EMIT_FAILED")]
                /\ UNCHANGED turns
           ELSE /\ turns' = emit(event)
                /\ exec' = [exec EXCEPT ![h] =
                     Exited([exec[h] EXCEPT !.http = 200], NextPc("emit"))]
  /\ UNCHANGED <<files, sessVars, notTurn>>

\* POST /session/create from another client: createNewSession
CreateNewSession ==
  /\ Cardinality(DOMAIN files) < MaxSessions
  /\ LET sessionId == SessionIdOf(Cardinality(DOMAIN files) + 1) IN
       /\ files' = [sid \in DOMAIN files \cup {sessionId} |->
                      IF sid = sessionId THEN createSession ELSE files[sid]]
       /\ currentSessionId' = sessionId
  /\ UNCHANGED <<turns, exec, notTurn>>

NextTurn ==
  \/ \E h \in Handlers :
       \/ Start(h)
       \/ HandleUserMessageEnds(h)
       \/ TurnBegin(h)
       \/ FetchRejects(h)
       \/ Catch(h)
       \/ CatchFetchRejects(h)
       \/ ProcessReturn(h)
       \/ ProcessFails(h)
       \/ UpdateSurface(h)
       \/ SurfaceWriteFails(h)
       \/ StreamRequest(h)
       \/ StreamToken(h)
       \/ StreamClose(h)
       \/ StreamReadRejects(h)
       \/ GetCapsule(h)
       \/ TurnEmit(h)

SpecTurn == InitTurn /\ [][NextTurn]_vars

\* the turn lifecycle while other clients create sessions
NextSession == NextTurn \/ CreateNewSession

SpecSession == InitTurn /\ [][NextSession]_vars

\* the entries of a handleTurn call's record that are this event
Entries(h, ev, what) ==
  {i \in 1..Len(exec[h].trail) : exec[h].trail[i] = <<ev, what>>}

\* C1: at most one Turn is active at any time, and a beginTurn request made
\* while a Turn is active is answered 409 with the TurnConflict message and
\* leaves every Turn (turnId, status, error) as it was
C1_SingleActiveTurn ==
  /\ [](Cardinality({i \in DOMAIN turns : turns[i].status = "active"}) <= 1)
  /\ [][\A h \in Handlers :
          (TurnBegin(h) /\ TurnActive) =>
             /\ exec'[h].http = 409
             /\ exec'[h].error.msg = TurnConflict
             /\ turns' = turns]_vars

\* a beginTurn request has just been rejected with 409 while a Turn is active
C1_Witness ==
  /\ TurnActive
  /\ \E h \in Handlers :
       /\ exec[h].pc = "catch"
       /\ exec[h].http = 409
       /\ exec[h].error.msg = TurnConflict

\* C2: a beginTurn request made when the current Turn is completed or failed
\* is answered 201 and creates a new active Turn, with a new turnId, that
\* replaces the finished one as the current Turn
C2_BeginAfterTerminal ==
  [][\A h \in Handlers :
       (TurnBegin(h) /\ getContext.status \in {"completed", "failed"}) =>
          /\ exec'[h].http = 201
          /\ Len(turns') = Len(turns) + 1
          /\ turns'[Len(turns')].status = "active"
          /\ turns'[Len(turns')].turnId # getContext.turnId
          /\ exec'[h].turnId = turns'[Len(turns')].turnId
          /\ turns'[Len(turns)].status = getContext.status]_vars

\* begin, begin (rejected), failTurn, begin: the last begin has succeeded
C2_Witness ==
  /\ Len(turns) = 2
  /\ turns[1].status = "failed"
  /\ turns[2].status = "active"
  /\ \E h, g \in Handlers :
       /\ exec[h].pc = "llm1"
       /\ exec[h].http = 201
       /\ exec[h].turnId = turns[2].turnId
       /\ exec[g].pc = "raised"
       /\ exec[g].failTurnCalls = <<TurnConflict>>

\* C3: a handleTurn call that ends with an error has invoked failTurn exactly
\* once, with the message of the error of the failed stage, and raises that
\* same error; a call that returns has never invoked failTurn
C3_FailTurnOnceSameErrorRaised ==
  \A h \in Handlers :
    /\ exec[h].pc = "raised" =>
         /\ exec[h].failTurnCalls = <<exec[h].error.msg>>
         /\ exec[h].thrown = exec[h].error
    /\ exec[h].pc = "returned" => exec[h].failTurnCalls = <<>>

\* C4: a handleTurn call writes the trace surface at most once, only after its
\* iteration of the LLM2 stream has ended, and only when the stream ended with
\* the response complete (not cut short by an error event), so the trace never
\* holds a partial response
C4_TraceWrittenOnceAfterFullResponse ==
  \A h \in Handlers :
    /\ Cardinality(Entries(h, "write", "trace")) <= 1
    /\ exec[h].pc \in {"stream", "tokens"} => Entries(h, "write", "trace") = {}
    /\ \A i \in Entries(h, "write", "trace") :
         \E j \in 1..(i - 1) :
           /\ exec[h].trail[j][1] = "stream"
           /\ exec[h].trail[j][2] # "error"

\* C5: a handleTurn call requests the LLM2 stream only after its capsule head
\* update has returned and calls LLM3 only after its trace update has
\* returned, and the capsule compiled for each of the two holds what that
\* update wrote
C5_CompiledAfterWrites ==
  \A h \in Handlers :
    /\ \A i \in Entries(h, "compile", "llm2") :
         \E j \in Entries(h, "write", "head") : j < i
    /\ \A i \in Entries(h, "compile", "llm3") :
         \E j \in Entries(h, "write", "trace") : j < i
    /\ exec[h].pc = "tokens" =>
         exec[h].compiled["capsule.head"] = UpdateContent(exec[h], "head").head
    /\ exec[h].pc = "getCapsule" =>
         exec[h].compiled["trace"] = UpdateContent(exec[h], "trace")

(***************************************************************************)
(* PART 4 - the line-buffered stream readers: llmClient streamLLM as read  *)
(* by handleLLMStream, aios-chat capsuleClient streamLLM, and llm-service  *)
(* callOllamaChatStream                                                    *)
(***************************************************************************)

\* the three readers
Readers == {"llmClient", "capsuleClient", "ollama"}

\* JSON.parse of a JSON atom read as an OllamaChatResponse: X is { error }
OllamaChunk(a) ==
  CASE a = "T1" -> [token |-> "t1", done |-> FALSE, error |-> Null]
    [] a = "T2" -> [token |-> "t2", done |-> FALSE, error |-> Null]
    [] a = "E"  -> [token |-> "", done |-> TRUE, error |-> Null]
    [] a = "X"  -> [token |-> "", done |-> FALSE, error |-> "upstream"]

\* bodies made of 'data: ' records separated by blank lines (SSE)
SseBodies ==
  { <<"D", "T1", NL, NL, "D", "G", NL, NL, "D", "T2", NL, NL, "D", "E", NL, NL, "D", "T1", NL, NL>>,
    <<"D", "G", NL, NL, "D", "T1", NL, NL, "D", "X", NL, NL, "D", "T2", NL, NL>>,
    <<"G", NL, "D", "T1", NL, NL, "D", "T2", NL, NL>>,
    <<"D", "E", NL, NL>> }

\* bodies made of one JSON text per line (NDJSON, as Ollama sends them)
NdjsonBodies ==
  { <<"T1", NL, "G", NL, "T2", NL, "E", NL, "T1", NL>>,
    <<"G", NL, NL, "T1", NL, "D", "T2", NL, "T2", NL>>,
    <<"T1", NL, "X", NL, "T2", NL, "E", NL>>,
    <<"E", NL>> }

\* the bodies a reader may be given
BodiesFor(r) == IF r = "ollama" THEN NdjsonBodies ELSE SseBodies

\* the text of a line that the reader hands to JSON.parse: line.slice(6) of a
\* 'data: ' line, line.trim() of an Ollama line; <<>> when the line is not looked at
Payload(r, line) ==
  IF r = "ollama" THEN line
  ELSE IF StartsWithData(line) THEN Tail(line) ELSE <<>>

\* JSON.parse(text) succeeds
IsJson(text) == Len(text) = 1 /\ text[1] \in JsonAtoms

\* what the body of the for loop does with one line: "skip" it, "yield" a value
\* and go on, "yield-return" a value and stop, or "return" without a value
LineStepStoppingOnMalformed(r, line) ==
  LET text == Payload(r, line) IN
  IF text = <<>> THEN [do |-> "skip", value |-> NoEvent]
  ELSE IF ~IsJson(text) THEN [do |-> "return", value |-> NoEvent]
  ELSE IF r = "ollama" THEN
    LET chunk == OllamaChunk(text[1]) IN
    IF chunk.error # Null THEN [do |-> "skip", value |-> NoEvent]
    ELSE IF chunk.done THEN [do |-> "yield-return", value |-> [chunk EXCEPT !.error = Null]]
    ELSE [do |-> "yield", value |-> chunk]
  ELSE IF r = "capsuleClient" THEN
    LET data == ParseEvent(text[1]) IN
    IF data.done THEN [do |-> "return", value |-> NoEvent]
    ELSE IF data.token \notin {Null, ""} THEN [do |-> "yield", value |-> data]
    ELSE [do |-> "skip", value |-> NoEvent]
  ELSE
    LET event == ParseEvent(text[1]) IN
    IF event.done THEN [do |-> "yield-return", value |-> event]
    ELSE [do |-> "yield", value |-> event]

\* ollama: trimmed empty -> continue; JSON.parse throws -> catch (parseError);
\*   chunk.error -> throw inside the same try, caught by catch (parseError);
\*   chunk.done -> yield { token, done: true } and return; else yield { token, done: false }
\* capsuleClient: 'data: ' lines only; JSON.parse throws -> catch {};
\*   data.token && !data.done -> yield data.token; data.done -> return
\* llmClient: 'data: ' lines only; JSON.parse throws -> catch {}; yield event;
\*   handleLLMStream writes it and breaks out of its for-await when event.done
LineStep(r, line) ==
  LET text == Payload(r, line) IN
  IF text = <<>> THEN [do |-> "skip", value |-> NoEvent]
  ELSE IF ~IsJson(text) THEN [do |-> "skip", value |-> NoEvent]
  ELSE IF r = "ollama" THEN
    LET chunk == OllamaChunk(text[1]) IN
    IF chunk.error # Null THEN [do |-> "skip", value |-> NoEvent]
    ELSE IF chunk.done THEN [do |-> "yield-return", value |-> [chunk EXCEPT !.error = Null]]
    ELSE [do |-> "yield", value |-> chunk]
  ELSE IF r = "capsuleClient" THEN
    LET data == ParseEvent(text[1]) IN
    IF data.done THEN [do |-> "return", value |-> NoEvent]
    ELSE IF data.token \notin {Null, ""} THEN [do |-> "yield", value |-> data]
    ELSE [do |-> "skip", value |-> NoEvent]
  ELSE
    LET event == ParseEvent(text[1]) IN
    IF event.done THEN [do |-> "yield-return", value |-> event]
    ELSE [do |-> "yield", value |-> event]

\* a reader is about to read a body
InitReader ==
  /\ \E opts \in {<<>>} : RetryStart(opts)
  /\ currentSessionId = Null
  /\ StreamQuiet
  /\ TurnQuiet
  /\ readerOf \in Readers
  /\ sent \in BodiesFor(readerOf)
  /\ unread = sent
  /\ rbuffer = <<>>
  /\ rlines = <<>>
  /\ readerPc = "reading"
  /\ delivered = <<>>

\* a reader that starts every chunk with an empty buffer
ReaderChunkDroppingPartial ==
  /\ readerPc = "reading"
  /\ \E n \in 1..MaxChunk :
       /\ n <= Len(unread)
       /\ LET pieces == Split(SubSeq(unread, 1, n)) IN
            /\ rlines' = SubSeq(pieces, 1, Len(pieces) - 1)
            /\ rbuffer' = pieces[Len(pieces)]
       /\ unread' = SubSeq(unread, n + 1, Len(unread))
  /\ readerPc' = "lines"
  /\ UNCHANGED <<readerOf, sent, delivered, notReader>>

\* reader.read() returns a chunk: buffer += decode(value); lines = buffer.split('\n');
\* buffer = lines.pop()
ReaderChunk ==
  /\ readerPc = "reading"
  /\ \E n \in 1..MaxChunk :
       /\ n <= Len(unread)
       /\ LET pieces == Split(rbuffer \o SubSeq(unread, 1, n)) IN
            /\ rlines' = SubSeq(pieces, 1, Len(pieces) - 1)
            /\ rbuffer' = pieces[Len(pieces)]
       /\ unread' = SubSeq(unread, n + 1, Len(unread))
  /\ readerPc' = "lines"
  /\ UNCHANGED <<readerOf, sent, delivered, notReader>>

\* one iteration of for (const line of lines), or its end
ReaderLine ==
  /\ readerPc = "lines"
  /\ IF rlines = <<>>
       THEN /\ readerPc' = "reading"
            /\ UNCHANGED <<rlines, delivered>>
       ELSE LET step == LineStep(readerOf, Head(rlines)) IN
            /\ delivered' = IF step.do \in {"yield", "yield-return"}
                              THEN Append(delivered, step.value)
                              ELSE delivered
            /\ readerPc' = IF step.do \in {"return", "yield-return"}
                             THEN "returned"
                             ELSE "lines"
            /\ rlines' = Tail(rlines)
  /\ UNCHANGED <<readerOf, sent, unread, rbuffer, notReader>>

\* reader.read() reports done: break, and the generator returns
ReaderEnd ==
  /\ readerPc = "reading"
  /\ unread = <<>>
  /\ readerPc' = "returned"
  /\ UNCHANGED <<readerOf, sent, unread, rbuffer, rlines, delivered, notReader>>

NextReader == ReaderChunk \/ ReaderLine \/ ReaderEnd

SpecReader == InitReader /\ [][NextReader]_vars

\* the newline-terminated lines of a body
CompleteLines(body) == LET pieces == Split(body) IN SubSeq(pieces, 1, Len(pieces) - 1)

\* a line is a well-formed token or done record of the reader's format
WellFormed(r, line) ==
  IF r = "ollama"
    THEN Len(line) = 1 /\ line[1] \in {"T1", "T2", "E"}
    ELSE Len(line) = 2 /\ line[1] = "D" /\ line[2] \in JsonAtoms

\* the record a well-formed line carries
RecordOf(r, line) == IF r = "ollama" THEN OllamaChunk(line[1]) ELSE ParseEvent(line[2])

RECURSIVE UpToDone(_)
\* the records of a sequence up to and including its first done record
UpToDone(recs) ==
  IF recs = <<>> THEN <<>>
  ELSE IF Head(recs).done THEN <<Head(recs)>>
  ELSE <<Head(recs)>> \o UpToDone(Tail(recs))

\* what a consumer is owed for a body: its well-formed records in order up to
\* the first done record; capsuleClient's consumer is owed the tokens only
Owed(r, body) ==
  LET good == SelectSeq(CompleteLines(body), LAMBDA l : WellFormed(r, l))
      recs == UpToDone([i \in DOMAIN good |-> RecordOf(r, good[i])])
  IN IF r = "capsuleClient" THEN SelectSeq(recs, LAMBDA e : ~e.done) ELSE recs

\* s is an initial part of t
IsPrefix(s, t) == Len(s) <= Len(t) /\ SubSeq(t, 1, Len(s)) = s

\* C13: a reader delivers the well-formed records of the body in their order,
\* skipping the lines that do not parse, and has delivered all of them up to
\* the first done record when it returns; a done record makes it return, and
\* nothing that follows a done record is delivered
C13_MalformedSkippedDoneEnds ==
  /\ readerPc # "idle" => IsPrefix(delivered, Owed(readerOf, sent))
  /\ readerPc = "returned" => delivered = Owed(readerOf, sent)

\* a body with a malformed line, read to its done record, with text left behind it
C13_Witness ==
  /\ readerPc = "returned"
  /\ \E i \in DOMAIN sent : sent[i] = "G"
  /\ Len(delivered) >= 2
  /\ delivered[1].token = "t1" /\ delivered[2].token = "t2"
  /\ Len(unread) + Len(rlines) > 0

(***************************************************************************)
(* PART 5 - fileService called directly: readSurface / writeSurface on the *)
(* documents of one session                                                *)
(***************************************************************************)

\* most writeSurface calls followed
MaxWrites == 2

\* the states a surface document can be found in when the store is first used
DocumentForms == {"created", "missing", "blank", "torn"}

\* the documents of a session whose document of one surface is in the given form
SessionDocuments(surfaceId, form) ==
  [k \in (IF form = "missing" THEN VALID_SURFACES \ {surfaceId} ELSE VALID_SURFACES) |->
     IF k # surfaceId \/ form = "created" THEN createSession[k]
     ELSE IF form = "blank" THEN BlankText
     ELSE TornText]

\* contents a caller may pass to writeSurface, by surface
StoreContents(surfaceId) ==
  CASE surfaceId = "digr" ->
         { [decisions |-> <<"d1">>],
           [decisions |-> <<"d2">>, insights |-> <<"i1">>, milestone |-> "step_completed"],
           [decisions |-> <<"d1">>, milestone |-> Null, contribution |-> "c1"] }
    [] surfaceId = "capsule" ->
         { [head |-> [framing |-> "A", userInput |-> "hello"],
            body |-> [recentTurns |-> <<"t1">>]],
           [head |-> [framing |-> "B"]] }
    [] surfaceId = "session-state" ->
         { [lastTurnId |-> "t1", turnCount |-> 1], [trajectory |-> "up"] }
    [] surfaceId = "trace" ->
         { [turnId |-> "t1", userInput |-> "hello"], [turnId |-> "t2", intent |-> "ask"] }
    [] surfaceId = "intuition-outline" ->
         { [pulse |-> "calm"], [suggestedFocus |-> "pricing"] }

\* a session exists; one of its documents may be missing, blank or torn
InitStore ==
  /\ \E opts \in {<<>>} : RetryStart(opts)
  /\ StreamQuiet
  /\ ReaderQuiet
  /\ currentSessionId = SessionIdOf(1)
  /\ \E surfaceId \in VALID_SURFACES, form \in DocumentForms :
       files = [sid \in {SessionIdOf(1)} |-> SessionDocuments(surfaceId, form)]
  /\ turns = <<>>
  /\ exec = <<>>
  /\ log = <<>>
  /\ got = NoRead
  /\ CapsuleQuiet

\* await writeSurface(sessionId, surfaceId, content)
WriteSurfaceCall ==
  /\ Len(log) < MaxWrites
  /\ UNCHANGED notStore
  /\ \E surfaceId \in VALID_SURFACES :
       \E content \in StoreContents(surfaceId) :
         /\ files' = writeSurface(currentSessionId, surfaceId, content)
         /\ log' = Append(log, [sessionId |-> currentSessionId,
                                surfaceId |-> surfaceId,
                                content |-> content,
                                before |-> ReadExisting(currentSessionId, surfaceId),
                                after |-> readSurface(currentSessionId, surfaceId)'])
  /\ got' = NoRead

\* await readSurface(sessionId, surfaceId)
ReadSurfaceCall ==
  /\ \E sessionId \in DOMAIN files, surfaceId \in VALID_SURFACES :
       got' = [sessionId |-> sessionId, surfaceId |-> surfaceId,
               value |-> readSurface(sessionId, surfaceId)]
  /\ UNCHANGED <<files, log, notStore>>

\* fileService sessionExists: stat of the session directory succeeds
sessionExists(sessionId) == sessionId \in DOMAIN files

\* POST /session/create: generateSessionId, await createSession(sessionId),
\* currentSessionId = sessionId
CreateSessionCall ==
  /\ Cardinality(DOMAIN files) < MaxSessions
  /\ LET sessionId == SessionIdOf(Cardinality(DOMAIN files) + 1) IN
       /\ files' = [sid \in DOMAIN files \cup {sessionId} |->
                      IF sid = sessionId THEN createSession ELSE files[sid]]
       /\ currentSessionId' = sessionId
  /\ got' = NoRead
  /\ UNCHANGED <<log, retryVars, streamVars, readerVars, turns, exec, capsuleVars>>

NextStore == WriteSurfaceCall \/ ReadSurfaceCall \/ CreateSessionCall

SpecStore == InitStore /\ [][NextStore]_vars

\* the array fields of the digr surface
DigrArrayFields ==
  {"decisions", "insights", "goals", "relationships", "patterns", "refinements"}

\* the scalar metadata fields of the digr surface
DigrScalarFields == {"milestone", "contribution"}

RECURSIVE SuppliedArrays(_, _, _)
\* the arrays the digr writes of a session supplied for a field, one after another
SuppliedArrays(sessionId, entries, f) ==
  IF entries = <<>> THEN <<>>
  ELSE (IF /\ Head(entries).sessionId = sessionId
           /\ Head(entries).surfaceId = "digr"
           /\ f \in DOMAIN Head(entries).content
          THEN Head(entries).content[f] ELSE <<>>)
       \o SuppliedArrays(sessionId, Tail(entries), f)

\* the positions of the log that wrote the surface of the session
WritesOf(sessionId, surfaceId) ==
  {i \in DOMAIN log : log[i].sessionId = sessionId /\ log[i].surfaceId = surfaceId}

\* the position of the most recent write of the surface of the session
LastWriteOf(sessionId, surfaceId) ==
  CHOOSE i \in WritesOf(sessionId, surfaceId) :
    \A j \in WritesOf(sessionId, surfaceId) : j <= i

\* every position of the log that wrote the surface, in whatever session
AllWritesOf(surfaceId) == {i \in DOMAIN log : log[i].surfaceId = surfaceId}

\* C16: once the digr of a session has been written, each of its array fields
\* reads back as the concatenation, in call order and with duplicates kept, of
\* the arrays the writes supplied for it
C16_DigrArraysConcatenated ==
  \A sid \in DOMAIN files :
    WritesOf(sid, "digr") # {} =>
      \A f \in DigrArrayFields :
        /\ f \in DOMAIN readSurface(sid, "digr")
        /\ readSurface(sid, "digr")[f] = SuppliedArrays(sid, log, f)

\* {decisions:[d2], insights:[i1]}, then {decisions:[d1]}, read back in that order
C16_Witness ==
  /\ Cardinality(WritesOf(currentSessionId, "digr")) = 2
  /\ got.sessionId = currentSessionId
  /\ got.surfaceId = "digr"
  /\ got.value.decisions = <<"d2", "d1">>
  /\ got.value.insights = <<"i1">>

C18_ShallowMergeFrame ==
  \A i \in AllWritesOf("capsule") \cup AllWritesOf("session-state") :
    /\ DOMAIN log[i].after = DOMAIN log[i].before \cup DOMAIN log[i].content
    /\ \A k \in DOMAIN log[i].content : log[i].after[k] = log[i].content[k]
    /\ \A k \in DOMAIN log[i].before \ DOMAIN log[i].content :
         log[i].after[k] = log[i].before[k]

\* head {framing: A, userInput} and body written, then head {framing: B}: head
\* is replaced as a whole, body and the untouched tail are still there
C18_Witness ==
  /\ Cardinality(WritesOf(currentSessionId, "capsule")) >= 2
  /\ got.sessionId = currentSessionId
  /\ got.surfaceId = "capsule"
  /\ DOMAIN got.value = {"head", "body", "tail"}
  /\ got.value.head = [framing |-> "B"]
  /\ got.value.body = [recentTurns |-> <<"t1">>]

\* C19: once trace or intuition-outline of a session has been written, a read
\* returns exactly the content of its most recent write
C19_OverwriteReadsLastWrite ==
  \A sid \in DOMAIN files : \A surfaceId \in {"trace", "intuition-outline"} :
    WritesOf(sid, surfaceId) # {} =>
      /\ readSurface(sid, surfaceId) = log[LastWriteOf(sid, surfaceId)].content
      /\ log[LastWriteOf(sid, surfaceId)].after = log[LastWriteOf(sid, surfaceId)].content
      /\ (got.sessionId = sid /\ got.surfaceId = surfaceId) =>
           got.value = log[LastWriteOf(sid, surfaceId)].content

\* trace written twice with different contents, then read: the second content
C19_Witness ==
  /\ Cardinality(WritesOf(currentSessionId, "trace")) = 2
  /\ log[LastWriteOf(currentSessionId, "trace")].content = [turnId |-> "t2", intent |-> "ask"]
  /\ \E i \in WritesOf(currentSessionId, "trace") :
       log[i].content = [turnId |-> "t1", userInput |-> "hello"]
  /\ got.sessionId = currentSessionId
  /\ got.surfaceId = "trace"
  /\ got.value = [turnId |-> "t2", intent |-> "ask"]

\* C20: what readSurface returns is the content of the document when the
\* document exists and holds content, and the default shape of the surface in
\* every other case
C20_ReadParsedOrDefaultShape ==
  got.surfaceId # Null =>
    IF /\ FileExists(got.sessionId, got.surfaceId)
       /\ files[got.sessionId][got.surfaceId].form = "document"
      THEN got.value = files[got.sessionId][got.surfaceId].root
      ELSE got.value = getEmptySurface(got.surfaceId)

\* C21: a session made by createSession exists, and until it is written each
\* of its five surfaces reads as the default shape of that surface
C21_CreatedSessionReadsDefaults ==
  \A sid \in DOMAIN files \ {SessionIdOf(1)} :
    /\ sessionExists(sid)
    /\ \A surfaceId \in VALID_SURFACES :
         WritesOf(sid, surfaceId) = {} =>
           /\ readSurface(sid, surfaceId) = getEmptySurface(surfaceId)
           /\ (got.sessionId = sid /\ got.surfaceId = surfaceId) =>
                got.value = getEmptySurface(surfaceId)

\* the digr of a session created after writes to another one, read before any
\* write to it
C21_Witness ==
  /\ currentSessionId = SessionIdOf(2)
  /\ \A i \in DOMAIN log : log[i].sessionId = SessionIdOf(1)
  /\ Len(log) >= 1
  /\ got.sessionId = SessionIdOf(2)
  /\ got.surfaceId = "digr"
  /\ got.value = getEmptySurface("digr")

(***************************************************************************)
(* PART 6 - capsuleService: compileCapsule while the store is written      *)
(***************************************************************************)

\* the surfaces lists a caller may ask compileCapsule to resolve
CompilePathLists ==
  { <<"capsule.head", "capsule.body">>,
    <<"capsule.body", "trace">>,
    <<"trace", "capsule.tail", "digr">> }

\* the document of a surface of the current session after the first n
\* writeSurface calls of the log
ContentAt(n, surfaceId) ==
  LET writes == {i \in 1..n : /\ log[i].sessionId = currentSessionId
                              /\ log[i].surfaceId = surfaceId}
  IN IF writes = {} THEN getEmptySurface(surfaceId)
     ELSE log[CHOOSE i \in writes : \A j \in writes : j <= i].after

\* what a path denotes in the store as it was after the first n writes
DenotedAt(n, variablePath) ==
  IF PathField(variablePath) = Null
    THEN ContentAt(n, PathSurface(variablePath))
    ELSE ContentAt(n, PathSurface(variablePath))[PathField(variablePath)]

\* a session has been created and nothing else has happened
InitCompile ==
  /\ \E opts \in {<<>>} : RetryStart(opts)
  /\ StreamQuiet
  /\ ReaderQuiet
  /\ currentSessionId = SessionIdOf(1)
  /\ files = [sid \in {SessionIdOf(1)} |-> createSession]
  /\ turns = <<>>
  /\ exec = <<>>
  /\ log = <<>>
  /\ got = NoRead
  /\ CapsuleQuiet

\* compileCapsule(sessionId, variablePaths, userInput) is called:
\* resolveVariables starts with results = []
CompileStart ==
  /\ capsuleRun.pc = "idle"
  /\ \E variablePaths \in CompilePathLists :
       capsuleRun' = [pc |-> "resolving", variablePaths |-> variablePaths,
                      started |-> Len(log), results |-> <<>>]
  /\ UNCHANGED <<files, log, got, call, ret, retryVars, sessVars, streamVars,
                 readerVars, turns, exec>>

\* a loop that resolves every path against the store as it was when the call began
ResolveNextFromSnapshot ==
  /\ capsuleRun.pc = "resolving"
  /\ Len(capsuleRun.results) < Len(capsuleRun.variablePaths)
  /\ LET path == capsuleRun.variablePaths[Len(capsuleRun.results) + 1] IN
       capsuleRun' = [capsuleRun EXCEPT !.results =
                        Append(@, [path |-> path,
                                   content |-> DenotedAt(capsuleRun.started, path),
                                   at |-> Len(log)])]
  /\ UNCHANGED <<files, log, got, call, ret, retryVars, sessVars, streamVars,
                 readerVars, turns, exec>>

\* resolveVariables: one iteration of for (const path of variablePaths):
\* await resolveVariable(sessionId, path); results.push(resolved)
ResolveNext ==
  /\ capsuleRun.pc = "resolving"
  /\ Len(capsuleRun.results) < Len(capsuleRun.variablePaths)
  /\ LET path == capsuleRun.variablePaths[Len(capsuleRun.results) + 1] IN
       capsuleRun' = [capsuleRun EXCEPT !.results =
                        Append(@, [path |-> path,
                                   content |-> resolveVariable(currentSessionId, path),
                                   at |-> Len(log)])]
  /\ UNCHANGED <<files, log, got, call, ret, retryVars, sessVars, streamVars,
                 readerVars, turns, exec>>

\* resolveVariables returns results; compileCapsule returns the assembled capsule
CompileReturn ==
  /\ capsuleRun.pc = "resolving"
  /\ Len(capsuleRun.results) = Len(capsuleRun.variablePaths)
  /\ capsuleRun' = [capsuleRun EXCEPT !.pc = "returned"]
  /\ UNCHANGED <<files, log, got, call, ret, retryVars, sessVars, streamVars,
                 readerVars, turns, exec>>

NextCompile == CompileStart \/ ResolveNext \/ CompileReturn \/ WriteSurfaceCall

SpecCompile == InitCompile /\ [][NextCompile]_vars

\* C22: the results of a compilation are those of its paths in list order,
\* each holding what its path denoted in the store at the moment that path
\* was resolved (after the writes completed until then), the moments following
\* one another in list order
C22_ResolvedOneByOneNoSnapshot ==
  /\ Len(capsuleRun.results) <= Len(capsuleRun.variablePaths)
  /\ \A i \in DOMAIN capsuleRun.results :
       /\ capsuleRun.results[i].path = capsuleRun.variablePaths[i]
       /\ capsuleRun.results[i].content =
            DenotedAt(capsuleRun.results[i].at, capsuleRun.results[i].path)
       /\ \A j \in DOMAIN capsuleRun.results :
            i <= j => capsuleRun.results[i].at <= capsuleRun.results[j].at
  /\ capsuleRun.pc = "returned" =>
       Len(capsuleRun.results) = Len(capsuleRun.variablePaths)

\* one write of head and body between the two resolutions: the capsule returned
\* holds the head from before the write and the body from after it
C22_Witness ==
  /\ capsuleRun.pc = "returned"
  /\ capsuleRun.variablePaths = <<"capsule.head", "capsule.body">>
  /\ Len(log) = 1
  /\ log[1].content = [head |-> [framing |-> "A", userInput |-> "hello"],
                       body |-> [recentTurns |-> <<"t1">>]]
  /\ capsuleRun.results[1].content = getEmptySurface("capsule").head
  /\ capsuleRun.results[2].content = [recentTurns |-> <<"t1">>]

(***************************************************************************)
(* PART 7 - capsuleService: resolveVariable, formatContent, assembleCapsule *)
(* as functions of JavaScript values                                       *)
(***************************************************************************)

\* A JavaScript value carries its type: typeof and Array.isArray decide what
\* these functions do. An object is the sequence of its [key, value] entries
\* (Object.entries order).
JsNull == [t |-> "null"]

JsUndefined == [t |-> "undefined"]

JsFunction == [t |-> "function"]

Str(v) == [t |-> "string", v |-> v]

Num(v) == [t |-> "number", v |-> v]

Bool(v) == [t |-> "boolean", v |-> v]

Arr(items) == [t |-> "array", items |-> items]

Obj(entries) == [t |-> "object", entries |-> entries]

\* a value that passes if (value)
Truthy(value) ==
  CASE value.t \in {"null", "undefined"} -> FALSE
    [] value.t = "string" -> value.v # ""
    [] value.t = "number" -> value.v # 0
    [] value.t = "boolean" -> value.v
    [] OTHER -> TRUE

\* typeof value === 'object' (null included)
TypeofObject(value) == value.t \in {"object", "array", "null"}

\* the text of an array index
IndexText(i) == <<"0", "1", "2", "3">>[i]

\* the own property names of an object or array
OwnKeys(value) ==
  CASE value.t = "object" -> {value.entries[i][1] : i \in DOMAIN value.entries}
    [] value.t = "array" -> {"length"} \cup {IndexText(i) : i \in DOMAIN value.items}
    [] OTHER -> {}

\* property names every object and array inherits from Object.prototype
InheritedKeys == {"constructor", "toString"}

\* field in value, for an object or array
HasProperty(value, field) == field \in OwnKeys(value) \cup InheritedKeys

\* value[field], for a field that is in value
GetProperty(value, field) ==
  IF field \notin OwnKeys(value) THEN JsFunction
  ELSE IF value.t = "object"
    THEN value.entries[CHOOSE i \in DOMAIN value.entries : value.entries[i][1] = field][2]
  ELSE IF field = "length" THEN Num(Len(value.items))
  ELSE value.items[CHOOSE i \in DOMAIN value.items : IndexText(i) = field]

\* what readFile and yaml.parse gave for a surface document
Absent == [outcome |-> "absent", value |-> JsNull]

Unreadable == [outcome |-> "unreadable", value |-> JsNull]

Parsed(value) == [outcome |-> "parsed", value |-> value]

\* variablePath.split('.') for the paths used
PathParts(variablePath) ==
  CASE variablePath = "capsule" -> <<"capsule">>
    [] variablePath = "session-state" -> <<"session-state">>
    [] variablePath = "capsule.head" -> <<"capsule", "head">>
    [] variablePath = "capsule.head.framing" -> <<"capsule", "head", "framing">>
    [] variablePath = "capsule.head.framing.length" -> <<"capsule", "head", "framing", "length">>
    [] variablePath = "capsule.head.selectedTopics.0" -> <<"capsule", "head", "selectedTopics", "0">>
    [] variablePath = "capsule.head.turnContext.x" -> <<"capsule", "head", "turnContext", "x">>
    [] variablePath = "capsule.missing" -> <<"capsule", "missing">>
    [] variablePath = "capsule.toString" -> <<"capsule", "toString">>

\* the paths a caller may ask for
ResolvePaths ==
  {"capsule", "session-state", "capsule.head", "capsule.head.framing",
   "capsule.head.framing.length", "capsule.head.selectedTopics.0",
   "capsule.head.turnContext.x", "capsule.missing", "capsule.toString"}

\* String.prototype.toUpperCase for the segments used
UpperCase(text) ==
  CASE text = "capsule" -> "CAPSULE"
    [] text = "session-state" -> "SESSION-STATE"
    [] text = "head" -> "HEAD"
    [] text = "framing" -> "FRAMING"
    [] text = "length" -> "LENGTH"
    [] text = "0" -> "0"
    [] text = "x" -> "X"
    [] text = "missing" -> "MISSING"
    [] text = "toString" -> "TOSTRING"

\* text.replace(/-/g, '_') for the upper-cased surface names
DashesToUnderscores(text) == IF text = "SESSION-STATE" THEN "SESSION_STATE" ELSE text

\* types/capsule MARKER_MAP: the explicit path -> marker table
MARKER_MAP == [variablePath \in {"capsule.head"} |-> "HEAD"]

\* capsuleService deriveMarker
deriveMarker(variablePath) ==
  IF variablePath \in DOMAIN MARKER_MAP THEN MARKER_MAP[variablePath]
  ELSE IF Len(PathParts(variablePath)) > 1
    THEN UpperCase(PathParts(variablePath)[Len(PathParts(variablePath))])
  ELSE DashesToUnderscores(UpperCase(variablePath))

RECURSIVE Descend(_, _)
\* resolveVariable: for (const field of fieldPath): step into the field when
\* content is a truthy object that has it, content = null and break otherwise
Descend(content, fieldPath) ==
  IF fieldPath = <<>> THEN content
  ELSE IF Truthy(content) /\ TypeofObject(content) /\ HasProperty(content, Head(fieldPath))
    THEN Descend(GetProperty(content, Head(fieldPath)), Tail(fieldPath))
  ELSE JsNull

\* capsuleService resolveVariable, given what the read of the surface document
\* gives: surface = parsed value or null (catch); the descent is made only
\* if (content && fieldPath.length > 0)
resolveVariableIn(document, variablePath) ==
  LET fieldPath == Tail(PathParts(variablePath))
      surface == IF document.outcome = "parsed" THEN document.value ELSE JsNull
  IN [path |-> variablePath,
      marker |-> deriveMarker(variablePath),
      content |-> IF Truthy(surface) /\ fieldPath # <<>>
                    THEN Descend(surface, fieldPath)
                    ELSE surface]

\* a capsule document as yaml.parse returns it
CapsuleValue ==
  Obj(<< <<"head", Obj(<< <<"framing", Str("strategic")>>,
                          <<"selectedTopics", Arr(<<Str("pricing")>>)>>,
                          <<"turnContext", JsNull>> >>)>>,
         <<"body", Obj(<< <<"recentTurns", Arr(<<>>)>> >>)>> >>)

\* what the read of a surface document may give
Documents ==
  {Absent, Unreadable, Parsed(JsNull), Parsed(Bool(FALSE)), Parsed(Num(0)),
   Parsed(Str("text")), Parsed(Arr(<<>>)), Parsed(Obj(<<>>)), Parsed(CapsuleValue)}

\* the calls of resolveVariable explored
ResolveCalls ==
  {[fn |-> "resolveVariable", document |-> d, variablePath |-> path] :
     d \in Documents, path \in ResolvePaths}

\* A string is the sequence of its lines (what split('\n') gives) and a line
\* is the sequence of its pieces; '' is one line with no piece.
EmptyString == << <<>> >>

\* a string literal without a line break
Lit(piece) == IF piece = "" THEN EmptyString ELSE << <<piece>> >>

\* '\n'
LineBreak == << <<>>, <<>> >>

\* a + b
Cat(a, b) == SubSeq(a, 1, Len(a) - 1) \o <<a[Len(a)] \o b[1]>> \o Tail(b)

RECURSIVE CatAll(_)
\* a template literal: the concatenation of its parts
CatAll(parts) == IF parts = <<>> THEN EmptyString ELSE Cat(Head(parts), CatAll(Tail(parts)))

RECURSIVE JoinWith(_, _)
\* strings.join(separator)
JoinWith(strings, separator) ==
  IF strings = <<>> THEN EmptyString
  ELSE IF Len(strings) = 1 THEN strings[1]
  ELSE Cat(Cat(strings[1], separator), JoinWith(Tail(strings), separator))

\* the decimal text of the numbers used
NumText(n) == CASE n = 0 -> "0" [] n = 1 -> "1" [] n = 7 -> "7"

RECURSIVE ToStringText(_)
\* String(value), and ${value} in a template literal
ToStringText(value) ==
  CASE value.t = "null" -> Lit("null")
    [] value.t = "undefined" -> Lit("undefined")
    [] value.t = "string" -> Lit(value.v)
    [] value.t = "number" -> Lit(NumText(value.v))
    [] value.t = "boolean" -> Lit(IF value.v THEN "true" ELSE "false")
    [] value.t = "function" -> Lit("function () { [native code] }")
    [] value.t = "object" -> Lit("[object Object]")
    [] value.t = "array" ->
         JoinWith([i \in DOMAIN value.items |->
                     IF value.items[i].t \in {"null", "undefined"} THEN EmptyString
                     ELSE ToStringText(value.items[i])], Lit(","))

\* capsuleService formatLabel: camelCase to Title Case with spaces, for the keys used
formatLabel(key) ==
  CASE key = "head" -> "Head"
    [] key = "body" -> "Body"
    [] key = "framing" -> "Framing"
    [] key = "selectedTopics" -> "Selected Topics"
    [] key = "turnContext" -> "Turn Context"
    [] key = "recentTurns" -> "Recent Turns"
    [] key = "turnId" -> "Turn Id"
    [] key = "userInput" -> "User Input"
    [] key = "content" -> "Content"
    [] key = "count" -> "Count"

\* capsuleService indent: two spaces before every line
indent(text) == [i \in DOMAIN text |-> <<"  ">> \o text[i]]

\* capsuleService formatArrayItem
formatArrayItem(item) ==
  IF TypeofObject(item) /\ item.t # "null"
    THEN IF HasProperty(item, "turnId") /\ HasProperty(item, "userInput")
           THEN CatAll(<<Lit("- Turn "), ToStringText(GetProperty(item, "turnId")),
                         Lit(": "), ToStringText(GetProperty(item, "userInput"))>>)
         ELSE IF HasProperty(item, "content")
           THEN Cat(Lit("- "), ToStringText(GetProperty(item, "content")))
         ELSE LET entries == IF item.t = "object" THEN item.entries
                             ELSE [i \in DOMAIN item.items |-> <<IndexText(i), item.items[i]>>]
              IN Cat(Lit("- "),
                     JoinWith([i \in DOMAIN entries |->
                                 CatAll(<<Lit(entries[i][1]), Lit(": "),
                                          ToStringText(entries[i][2])>>)], Lit(", ")))
  ELSE Cat(Lit("- "), ToStringText(item))

RECURSIVE formatContent(_)
\* capsuleService formatField
formatField(key, value) ==
  LET label == Lit(formatLabel(key)) IN
  IF value.t \in {"null", "undefined"} THEN Cat(label, Lit(": (none)"))
  ELSE IF value.t = "array"
    THEN IF value.items = <<>> THEN Cat(label, Lit(": (none)"))
         ELSE CatAll(<<label, Lit(":"), LineBreak,
                       JoinWith([i \in DOMAIN value.items |-> formatArrayItem(value.items[i])],
                                LineBreak)>>)
  ELSE IF value.t = "object"
    THEN CatAll(<<label, Lit(":"), LineBreak, indent(formatContent(value))>>)
  ELSE CatAll(<<label, Lit(": "), ToStringText(value)>>)

\* capsuleService formatContent
formatContent(content) ==
  IF content.t \in {"null", "undefined"} THEN Lit("(empty)")
  ELSE IF ~TypeofObject(content) THEN ToStringText(content)
  ELSE IF content.t = "array"
    THEN IF Len(content.items) = 0 THEN Lit("(none)")
         ELSE JoinWith([i \in DOMAIN content.items |-> formatArrayItem(content.items[i])],
                       LineBreak)
  ELSE LET fieldLines == [i \in DOMAIN content.entries |->
                            formatField(content.entries[i][1], content.entries[i][2])]
       IN IF JoinWith(fieldLines, LineBreak) = EmptyString THEN Lit("(empty)")
          ELSE JoinWith(fieldLines, LineBreak)

\* the values formatContent is called with
FormatValues ==
  {JsNull, JsUndefined, JsFunction, Str("text"), Num(0), Num(7), Bool(TRUE), Bool(FALSE),
   Arr(<<>>), Obj(<<>>), CapsuleValue,
   Arr(<<Str("a"), Num(1), JsNull>>),
   Arr(<< Obj(<< <<"turnId", Num(1)>>, <<"userInput", Str("hello")>> >>),
          Obj(<< <<"content", Str("note")>> >>),
          Obj(<< <<"framing", Str("strategic")>>, <<"count", Num(7)>> >>) >>),
   Obj(<< <<"body", Obj(<<>>)>>, <<"count", Num(0)>> >>)}

\* the calls of formatContent explored
FormatCalls == {[fn |-> "formatContent", content |-> value] : value \in FormatValues}

\* capsuleService formatSection: the header line, then the rendered content
formatSection(variable) ==
  CatAll(<<Lit("["), Lit(variable.marker), Lit(": "), Lit(variable.path), Lit("]"),
           LineBreak, formatContent(variable.content)>>)

\* an assembleCapsule that adds the [USER] section whenever userInput is passed
assembleCapsuleUserWhenPassed(resolvedVariables, userInput) ==
  LET sections == [i \in DOMAIN resolvedVariables |-> formatSection(resolvedVariables[i])]
                    \o (IF userInput # JsUndefined
                          THEN <<CatAll(<<Lit("[USER]"), LineBreak, ToStringText(userInput)>>)>>
                          ELSE <<>>)
  IN [text |-> JoinWith(sections, Cat(LineBreak, LineBreak)),
      variables |-> resolvedVariables]

\* capsuleService assembleCapsule: one section per variable, the [USER]
\* section if (userInput), joined by '\n\n'
assembleCapsule(resolvedVariables, userInput) ==
  LET sections == [i \in DOMAIN resolvedVariables |-> formatSection(resolvedVariables[i])]
                    \o (IF Truthy(userInput)
                          THEN <<CatAll(<<Lit("[USER]"), LineBreak, ToStringText(userInput)>>)>>
                          ELSE <<>>)
  IN [text |-> JoinWith(sections, Cat(LineBreak, LineBreak)),
      variables |-> resolvedVariables]

\* resolved variables as resolveVariable returns them
ResolvedSamples ==
  {resolveVariableIn(Parsed(CapsuleValue), path) :
     path \in {"capsule.head", "capsule.head.framing", "capsule.missing"}}
  \cup {resolveVariableIn(Absent, "session-state")}

\* the longest list of resolved variables explored
MaxVariables == 2

\* the userInput argument: left out, empty, or a text
UserInputs == {JsUndefined, Str(""), Str("hello")}

\* the calls of assembleCapsule explored
AssembleCalls ==
  {[fn |-> "assembleCapsule", resolvedVariables |-> list, userInput |-> userInput] :
     list \in UNION {[1..n -> ResolvedSamples] : n \in 0..MaxVariables},
     userInput \in UserInputs}

\* every call of the three functions explored
CapsuleCalls == ResolveCalls \cup FormatCalls \cup AssembleCalls

\* one call is about to be made
InitCapsule ==
  /\ \E opts \in {<<>>} : RetryStart(opts)
  /\ StreamQuiet
  /\ ReaderQuiet
  /\ currentSessionId = SessionIdOf(1)
  /\ files = [sid \in {SessionIdOf(1)} |-> createSession]
  /\ turns = <<>>
  /\ exec = <<>>
  /\ log = <<>>
  /\ got = NoRead
  /\ capsuleRun = IdleRun
  /\ call \in CapsuleCalls
  /\ ret = NoCall

\* everything but the call's result
notRet == <<retryVars, sessVars, streamVars, turnVars, readerVars, storeVars, capsuleRun, call>>

\* resolveVariable returns
ResolveVariableCall ==
  /\ call.fn = "resolveVariable"
  /\ ret = NoCall
  /\ ret' = [fn |-> call.fn, raised |-> FALSE,
             value |-> resolveVariableIn(call.document, call.variablePath)]
  /\ UNCHANGED notRet

\* formatContent returns
FormatContentCall ==
  /\ call.fn = "formatContent"
  /\ ret = NoCall
  /\ ret' = [fn |-> call.fn, raised |-> FALSE, value |-> formatContent(call.content)]
  /\ UNCHANGED notRet

\* assembleCapsule returns
AssembleCapsuleCall ==
  /\ call.fn = "assembleCapsule"
  /\ ret = NoCall
  /\ ret' = [fn |-> call.fn, raised |-> FALSE,
             value |-> assembleCapsule(call.resolvedVariables, call.userInput)]
  /\ UNCHANGED notRet

NextCapsule == ResolveVariableCall \/ FormatContentCall \/ AssembleCapsuleCall

SpecCapsule == InitCapsule /\ [][NextCapsule]_vars

RECURSIVE OwnDescentFails(_, _)
\* some segment of fieldPath is not a field of the value reached, or is
\* reached through a value that is not an object
OwnDescentFails(value, fieldPath) ==
  /\ fieldPath # <<>>
  /\ \/ value.t \notin {"object", "array"}
     \/ Head(fieldPath) \notin OwnKeys(value)
     \/ OwnDescentFails(GetProperty(value, Head(fieldPath)), Tail(fieldPath))

RECURSIVE SplitAtBlank(_, _)
\* the runs of non-blank lines of a text, in order
SplitAtBlank(textLines, current) ==
  LET done == IF current = <<>> THEN <<>> ELSE <<current>> IN
  IF textLines = <<>> THEN done
  ELSE IF Head(textLines) = <<>> THEN done \o SplitAtBlank(Tail(textLines), <<>>)
  ELSE SplitAtBlank(Tail(textLines), Append(current, Head(textLines)))

\* how many blank lines a text has
BlankLines(text) == Cardinality({i \in DOMAIN text : text[i] = <<>>})

\* userInput was provided and is not empty
UserInputGiven(userInput) == userInput.t = "string" /\ userInput.v # ""

\* C24: assembleCapsule emits exactly one section per resolved variable, in
\* input order, each the header [marker: path] then the rendered content,
\* separated by one blank line; the [USER] section comes last, exactly when
\* userInput is provided and non-empty; variables is the input list.
C24_SectionsInOrderUserLast ==
  (ret # NoCall /\ ret.fn = "assembleCapsule") =>
    LET list == call.resolvedVariables
        sections == SplitAtBlank(ret.value.text, <<>>)
        user == IF UserInputGiven(call.userInput) THEN 1 ELSE 0
    IN /\ ret.value.variables = list
       /\ Len(sections) = Len(list) + user
       /\ BlankLines(ret.value.text) = IF sections = <<>> THEN 1 ELSE Len(sections) - 1
       /\ \A i \in DOMAIN list :
            /\ sections[i][1] = <<"[", list[i].marker, ": ", list[i].path, "]">>
            /\ Tail(sections[i]) = formatContent(list[i].content)
       /\ user = 1 => sections[Len(sections)] = << <<"[USER]">>, <<call.userInput.v>> >>

\* two different variables and an empty userInput were assembled
C24_Witness ==
  /\ ret # NoCall
  /\ ret.fn = "assembleCapsule"
  /\ Len(call.resolvedVariables) = 2
  /\ call.resolvedVariables[1].path = "capsule.head.framing"
  /\ call.resolvedVariables[2].path = "capsule.head"
  /\ call.userInput = Str("")
  /\ BlankLines(ret.value.text) = 1

(***************************************************************************)
(* PART 8 - the Turn boundary: POST /turn/begin, /turn/emit, /turn/fail     *)
(* called by any client                                                    *)
(***************************************************************************)

\* the extensionChain of a begin request: left out, the chat client's, a longer one
ExtensionChains ==
  {<<>>, <<"extension-a">>, <<"extension-a", "extension-b", "extension-c">>}

\* req.body of POST /turn/begin
BeginBodies ==
  [sessionId : {Null, SessionIdOf(1)}, userInput : {Null, UserInputOf(1)},
   extensionChain : ExtensionChains]

\* req.body.event of POST /turn/emit: left out, recognised, or another name
EmitEvents == {Null} \cup validEvents \cup {"extension-d.complete", "turn.progress"}

\* req.body.error of POST /turn/fail: left out or a message
FailErrors == {Null, "llm-service error: 500", "fetch failed"}

\* no request has been answered yet
InitBoundary ==
  /\ \E opts \in {<<>>} : RetryStart(opts)
  /\ StreamQuiet
  /\ ReaderQuiet
  /\ currentSessionId = SessionIdOf(1)
  /\ files = [sid \in {SessionIdOf(1)} |-> createSession]
  /\ turns = <<>>
  /\ exec = <<>>
  /\ log = <<>>
  /\ got = NoRead
  /\ CapsuleQuiet

\* everything but the Turn list, the last request and its response
notBoundary == <<retryVars, sessVars, streamVars, files, exec, readerVars, storeVars, capsuleRun>>

\* a JSON error response
ErrorResponse(status, code, message) ==
  [status |-> status, body |-> [error |-> [code |-> code, message |-> message]]]

\* POST /turn/begin -> handleTurnBegin
PostTurnBegin ==
  /\ Len(turns) < MaxTurns
  /\ \E body \in BeginBodies :
       /\ call' = [fn |-> "handleTurnBegin", body |-> body]
       /\ IF BeginValidation(body) # "ok"
            THEN /\ turns' = turns
                 /\ ret' = ErrorResponse(400, BeginValidation(body), "required")
            ELSE IF TurnActive
              THEN /\ turns' = turns
                   /\ ret' = ErrorResponse(BeginErrorStatus(TurnConflict),
                                           "TURN_IN_PROGRESS", TurnConflict)
              ELSE /\ turns' = beginTurn(body.sessionId, body.userInput, body.extensionChain)
                   /\ ret' = [status |-> 201, body |-> getContext']
  /\ UNCHANGED notBoundary

\* checks of req.body that let every event name through
EmitValidationAnyEvent(event) == IF event = Null THEN "MISSING_EVENT" ELSE "ok"

\* handleTurnEmit: the checks of req.body before emit is called
EmitValidation(event) ==
  IF event = Null THEN "MISSING_EVENT"
  ELSE IF event \notin validEvents THEN "INVALID_EVENT"
  ELSE "ok"

\* a handleTurnEmit that answers with the status read before the emit
PostTurnEmitStaleStatus ==
  /\ \E event \in EmitEvents :
       /\ call' = [fn |-> "handleTurnEmit", body |-> [event |-> event]]
       /\ IF EmitValidation(event) # "ok"
            THEN /\ turns' = turns
                 /\ ret' = ErrorResponse(400, EmitValidation(event), "event")
            ELSE IF ~TurnActive
              THEN /\ turns' = turns
                   /\ ret' = ErrorResponse(500, "TURN_EMIT_FAILED", "No active turn")
              ELSE /\ turns' = emit(event)
                   /\ ret' = [status |-> 200,
                              body |-> [success |-> TRUE, status |-> getContext.status]]
  /\ UNCHANGED notBoundary

\* POST /turn/emit -> handleTurnEmit: MISSING_EVENT, INVALID_EVENT, then
\* turnSequencer.emit and the status of getContext(); catch -> 500
PostTurnEmit ==
  /\ \E event \in EmitEvents :
       /\ call' = [fn |-> "handleTurnEmit", body |-> [event |-> event]]
       /\ IF EmitValidation(event) # "ok"
            THEN /\ turns' = turns
                 /\ ret' = ErrorResponse(400, EmitValidation(event), "event")
            ELSE IF ~TurnActive
              THEN /\ turns' = turns
                   /\ ret' = ErrorResponse(500, "TURN_EMIT_FAILED", "No active turn")
              ELSE /\ turns' = emit(event)
                   /\ ret' = [status |-> 200,
                              body |-> [success |-> TRUE, status |-> getContext'.status]]
  /\ UNCHANGED notBoundary

\* a handleTurnFail that answers without the error
PostTurnFailWithoutError ==
  /\ \E error \in FailErrors :
       /\ call' = [fn |-> "handleTurnFail", body |-> [error |-> error]]
       /\ turns' = handleTurnFail(error)
       /\ ret' = IF error = Null
                   THEN ErrorResponse(400, "MISSING_ERROR", "error message is required")
                 ELSE IF ~TurnActive
                   THEN ErrorResponse(500, "TURN_FAIL_ERROR", "No active turn")
                 ELSE [status |-> 200,
                       body |-> [success |-> TRUE, status |-> getContext'.status,
                                 error |-> Null]]
  /\ UNCHANGED notBoundary

\* POST /turn/fail -> handleTurnFail: MISSING_ERROR, then turnSequencer.failTurn
\* and the status and error of getContext(); catch -> 500
PostTurnFail ==
  /\ \E error \in FailErrors :
       /\ call' = [fn |-> "handleTurnFail", body |-> [error |-> error]]
       /\ turns' = handleTurnFail(error)
       /\ ret' = IF error = Null
                   THEN ErrorResponse(400, "MISSING_ERROR", "error message is required")
                 ELSE IF ~TurnActive
                   THEN ErrorResponse(500, "TURN_FAIL_ERROR", "No active turn")
                 ELSE [status |-> 200,
                       body |-> [success |-> TRUE, status |-> getContext'.status,
                                 error |-> getContext'.error]]
  /\ UNCHANGED notBoundary

NextBoundary == PostTurnBegin \/ PostTurnEmit \/ PostTurnFail

SpecBoundary == InitBoundary /\ [][NextBoundary]_vars

\* C26: an emit request whose event name is outside the recognised set is
\* answered 400 INVALID_EVENT and leaves every Turn's status and error as
\* they were.
C26_UnknownEventRejected ==
  [][(call'.fn = "handleTurnEmit" /\ call'.body.event # Null
        /\ call'.body.event \notin validEvents)
       => /\ ret'.status = 400
          /\ ret'.body.error.code = "INVALID_EVENT"
          /\ turns' = turns]_vars

\* an unrecognised event was emitted while a Turn was active, and it still is
C26_Witness ==
  /\ call # NoCall
  /\ call.fn = "handleTurnEmit"
  /\ call.body.event = "extension-d.complete"
  /\ ret.status = 400
  /\ TurnActive

\* C27: an emit request with a recognised completion event made while the
\* Turn is active leaves the Turn completed, whatever its extensionChain is,
\* and is answered with success and the status completed.
C27_CompletionEventCompletes ==
  [][(call'.fn = "handleTurnEmit" /\ call'.body.event \in validEvents /\ TurnActive)
       => /\ getContext'.status = "completed"
          /\ getContext'.turnId = getContext.turnId
          /\ getContext'.extensionChain = getContext.extensionChain
          /\ ret'.status = 200
          /\ ret'.body = [success |-> TRUE, status |-> "completed"]]_vars

\* a Turn with the chain a, b, c was completed by the event of extension-a
C27_Witness ==
  /\ call # NoCall
  /\ call.fn = "handleTurnEmit"
  /\ call.body.event = "extension-a.complete"
  /\ ret.status = 200
  /\ getContext.status = "completed"
  /\ getContext.extensionChain = <<"extension-a", "extension-b", "extension-c">>

\* C28: a fail request with a message made while the Turn is active leaves
\* the Turn failed with error = message, and is answered with the status
\* failed and exactly that error.
C28_FailTurnStoresMessage ==
  [][(call'.fn = "handleTurnFail" /\ call'.body.error # Null /\ TurnActive)
       => /\ getContext'.status = "failed"
          /\ getContext'.error = call'.body.error
          /\ getContext'.turnId = getContext.turnId
          /\ ret'.status = 200
          /\ ret'.body = [success |-> TRUE, status |-> "failed",
                          error |-> call'.body.error]]_vars

\* the second Turn was failed with a message
C28_Witness ==
  /\ call # NoCall
  /\ call.fn = "handleTurnFail"
  /\ call.body.error = "fetch failed"
  /\ ret.status = 200
  /\ Len(turns) = 2
  /\ getContext.status = "failed"
  /\ getContext.error = "fetch failed"

(***************************************************************************)
(* PART 9 - request validation of POST /llm/process and POST /llm/stream    *)
(***************************************************************************)

\* request bodies a caller of POST /llm/process may send
ProcessRequests ==
  [llmId : {"llm1", "llm2", "llm9", Null}, surfaces : {<<>>, <<"capsule.head">>},
   userInput : {UserInputOf(1)}]

\* the request was sent to POST /llm/process
IsProcess == "userInput" \in DOMAIN req

\* a request arrives at one of the two endpoints
InitValidate ==
  \/ InitStream
  \/ /\ \E opts \in {<<>>} : RetryStart(opts)
     /\ currentSessionId \in {Null, SessionIdOf(1)}
     /\ req \in ProcessRequests
     /\ hpc = "pstart"
     /\ httpStatus = 0
     /\ headersSent = FALSE
     /\ out = <<>>
     /\ resEnded = FALSE
     /\ compiles = 0
     /\ spc = "init"
     /\ connectTimeout = Unarmed
     /\ idleTimeout = Unarmed
     /\ aborted = FALSE
     /\ buffer = <<>>
     /\ lines = <<>>
     /\ chunkCount = 0
     /\ yielded = NoEvent
     /\ genErr = Null
     /\ fetches = 0
     /\ wire = <<>>
     /\ waited = 0
     /\ pulled = <<>>
     /\ TurnQuiet
     /\ ReaderQuiet

\* what a step of handleLLMProcess outside callLLM leaves alone
processFrame ==
  <<req, out, spc, connectTimeout, idleTimeout, aborted, buffer, lines, chunkCount,
    yielded, genErr, fetches, wire, waited, pulled, sessVars, notStream>>

\* a validation that hands requests without surfaces on to compileCapsule
ProcessValidateWithoutSurfaceCheck ==
  /\ hpc = "pstart"
  /\ IF currentSessionId = Null THEN Reject(400)
     ELSE IF req.llmId = Null \/ req.llmId \notin VALID_LLM_IDS THEN Reject(400)
     ELSE IF req.llmId = "llm2" THEN Reject(400)
     ELSE /\ hpc' = "pcompile"
          /\ UNCHANGED <<httpStatus, headersSent, resEnded>>
  /\ UNCHANGED <<compiles, processFrame>>

\* handleLLMProcess: session check and request validation
ProcessValidate ==
  /\ hpc = "pstart"
  /\ IF currentSessionId = Null THEN Reject(400)
     ELSE IF req.llmId = Null \/ req.llmId \notin VALID_LLM_IDS THEN Reject(400)
     ELSE IF Len(req.surfaces) = 0 THEN Reject(400)
     ELSE IF req.llmId = "llm2" THEN Reject(400)
     ELSE /\ hpc' = "pcompile"
          /\ UNCHANGED <<httpStatus, headersSent, resEnded>>
  /\ UNCHANGED <<compiles, processFrame>>

\* handleLLMProcess: compileCapsule and loadSystemPrompt return
ProcessCompile ==
  /\ hpc = "pcompile"
  /\ compiles' = compiles + 1
  /\ hpc' = "pinfer"
  /\ UNCHANGED <<httpStatus, headersSent, resEnded, processFrame>>

\* handleLLMProcess: loadSystemPrompt throws; catch answers 500 LLM_FAILED
ProcessPromptThrows ==
  /\ hpc = "pcompile"
  /\ compiles' = compiles + 1
  /\ Reject(ProcessErrorStatus("Failed to load prompt"))
  /\ UNCHANGED processFrame

\* handleLLMProcess: await callLLM(systemPrompt, capsule.text), a step of withRetry
ProcessCallLLM ==
  /\ hpc = "pinfer"
  /\ NextRetry

\* message of the error callLLM ended with
RaisedMessage ==
  CASE raised.kind = "status" -> "llm-service error: 500"
    [] raised.kind = "abort" -> "This operation was aborted"
    [] OTHER -> "fetch failed"

\* handleLLMProcess: res.json(response), or catch: 502 / 504 / 500
ProcessRespond ==
  /\ hpc = "pinfer"
  /\ rpc \in {"returned", "thrown"}
  /\ Reject(IF rpc = "returned" THEN 200 ELSE ProcessErrorStatus(RaisedMessage))
  /\ UNCHANGED <<compiles, processFrame>>

NextValidate ==
  \/ NextStream
  \/ ProcessValidate
  \/ ProcessCompile
  \/ ProcessPromptThrows
  \/ ProcessCallLLM
  \/ ProcessRespond

SpecValidate == InitValidate /\ [][NextValidate]_vars

\* the request does not pass the validation of its endpoint: no active
\* session, an llmId that is missing, unknown or meant for the other
\* endpoint, or surfaces that is not a non-empty array
FailsValidation ==
  \/ currentSessionId = Null
  \/ req.llmId = Null
  \/ IsProcess /\ req.llmId \notin VALID_LLM_IDS
  \/ ~IsProcess /\ req.llmId # "llm2"
  \/ req.surfaces = <<>>

\* C29: a process or stream request that fails validation is answered with
\* an error by the validation step itself; no capsule is compiled for it and
\* no inference request, first or retried, is made.
C29_InvalidRequestAnsweredAtOnce ==
  FailsValidation =>
    /\ hpc \in {"start", "pstart", "ended"}
    /\ hpc = "ended" => (httpStatus = 400 /\ resEnded)
    /\ compiles = 0
    /\ fetches = 0
    /\ attempts = <<>>
    /\ attempt = 0
    /\ rpc = "loop"

\* a process request with a valid llmId but no surfaces was answered 400
C29_Witness ==
  /\ IsProcess
  /\ currentSessionId # Null
  /\ req.llmId = "llm1"
  /\ req.surfaces = <<>>
  /\ hpc = "ended"
  /\ httpStatus = 400

(***************************************************************************)
(* A handleTurn call rejected at beginTurn, next to the Turn in flight      *)
(***************************************************************************)

\* C30: the steps of a handleTurn call whose beginTurn was rejected with
\* TurnConflict leave the Turn in flight as it is: active, with no error,
\* until its own execution completes or fails.
C30_RejectedCallLeavesTurn ==
  [][\A h \in Handlers :
       (exec[h].pc = "catch" /\ exec[h].error.msg = TurnConflict /\ exec'[h] # exec[h])
         => turns' = turns]_vars

(***************************************************************************)
(* The turn after its LLM2 stream has ended                                 *)
(***************************************************************************)

\* C31: a handleTurn call whose LLM2 stream ended with a terminal error event
\* treats the turn as failed: it goes to its catch block (failTurn), it does
\* not go on to the trace update or the later steps, and its Turn is not
\* completed.
C31_StreamErrorFailsTurn ==
  \A h \in Handlers :
    Entries(h, "stream", "error") # {} =>
      /\ exec[h].pc \in {"catch", "raised"}
      /\ Entries(h, "write", "trace") = {}
      /\ \A i \in DOMAIN turns :
           turns[i].turnId = exec[h].turnId => turns[i].status # "completed"

(***************************************************************************)
(* PART 10 - concurrent POST /surface/update requests: writeSurface with    *)
(* its awaits (readFile, then writeFile) as separate steps                  *)
(***************************************************************************)

\* the requests in progress at the same time
Writers == {"w1", "w2"}

\* the most updateSurface requests made
MaxUpdates == 3

\* a request slot with no writeSurface call in progress
IdleWrite == [pc |-> "idle", surfaceId |-> Null, content |-> <<>>, existing |-> <<>>]

\* the surfaces written here: the array-append one and a shallow-merge one
WrittenSurfaces == {"digr", "capsule"}

\* no request yet; got.begun counts the requests made
InitWriters ==
  /\ \E opts \in {<<>>} : RetryStart(opts)
  /\ StreamQuiet
  /\ ReaderQuiet
  /\ currentSessionId = SessionIdOf(1)
  /\ files = [sid \in {SessionIdOf(1)} |-> createSession]
  /\ turns = <<>>
  /\ exec = <<>>
  /\ log = <<>>
  /\ got = [begun |-> 0]
  /\ capsuleRun = IdleRun
  /\ call = [w \in Writers |-> IdleWrite]
  /\ ret = NoCall

\* what the steps of a writeSurface call leave alone
notWriters == <<retryVars, sessVars, streamVars, readerVars, turns, exec, capsuleRun, ret>>

\* updateSurface: the request passed its checks and writeSurface is called
WriteBegin(w) ==
  /\ call[w].pc = "idle"
  /\ got.begun < MaxUpdates
  /\ currentSessionId # Null
  /\ \E surfaceId \in WrittenSurfaces :
       \E content \in StoreContents(surfaceId) :
         call' = [call EXCEPT ![w] = [pc |-> "read", surfaceId |-> surfaceId,
                                      content |-> content, existing |-> <<>>]]
  /\ got' = [begun |-> got.begun + 1]
  /\ UNCHANGED <<files, log, notWriters>>

\* writeSurface: await readFile resolves (or throws) and existing is set
WriteRead(w) ==
  /\ call[w].pc = "read"
  /\ call' = [call EXCEPT ![w].pc = "write",
                          ![w].existing = ReadExisting(currentSessionId, call[w].surfaceId)]
  /\ UNCHANGED <<files, log, got, notWriters>>

\* writeSurface: the strategy is applied to existing, await writeFile
\* resolves, and updateSurface answers success
WriteWrite(w) ==
  /\ call[w].pc = "write"
  /\ files' = [files EXCEPT ![currentSessionId] =
       [k \in DOMAIN files[currentSessionId] \cup {call[w].surfaceId} |->
          IF k = call[w].surfaceId
            THEN yamlStringify(finalContent(call[w].surfaceId, call[w].existing,
                                            call[w].content))
            ELSE files[currentSessionId][k]]]
  /\ log' = Append(log, [sessionId |-> currentSessionId, surfaceId |-> call[w].surfaceId,
                         content |-> call[w].content])
  /\ call' = [call EXCEPT ![w] = IdleWrite]
  /\ UNCHANGED <<got, notWriters>>

\* writeSurface: await writeFile rejects; updateSurface answers 500
WriteRejects(w) ==
  /\ call[w].pc = "write"
  /\ call' = [call EXCEPT ![w] = IdleWrite]
  /\ UNCHANGED <<files, log, got, notWriters>>

NextWriters ==
  \E w \in Writers : WriteBegin(w) \/ WriteRead(w) \/ WriteWrite(w) \/ WriteRejects(w)

SpecWriters == InitWriters /\ [][NextWriters]_vars

\* the items of a sequence
Items(seq) == {seq[i] : i \in DOMAIN seq}

\* C32: whatever the interleaving of writeSurface calls on the digr surface,
\* every item supplied to a call that has returned successfully is in the
\* stored document: no append is lost.
C32_NoAppendLost ==
  \A i \in DOMAIN log :
    log[i].surfaceId = "digr" =>
      \A f \in DigrArrayFields \cap DOMAIN log[i].content :
        Items(log[i].content[f])
          \subseteq Items(readSurface(log[i].sessionId, "digr")[f])

(***************************************************************************)
(* The completion event and the surface updates of a turn                   *)
(***************************************************************************)

\* the handleTurn call has had its trace, body and tail updates answered
UpdatesReturned(h) ==
  /\ Entries(h, "write", "trace") # {}
  /\ Entries(h, "write", "body") # {}
  /\ Entries(h, "write", "tail") # {}

\* C33: a handleTurn call emits extension-a.complete only after its trace,
\* body and tail updates have returned, and a Turn in status completed is one
\* whose own handleTurn call has had all of them committed.
C33_CompletedAfterUpdates ==
  \A h \in Handlers :
    /\ exec[h].pc = "emit" => UpdatesReturned(h)
    /\ \A i \in DOMAIN turns :
         (turns[i].turnId = exec[h].turnId /\ turns[i].status = "completed")
           => (exec[h].pc = "returned" \/ UpdatesReturned(h))

(***************************************************************************)
(* PART 11 - turns run one at a time by one chat panel, each to completion  *)
(***************************************************************************)

\* the most turns run one after the other
MaxSequentialTurns == 6

\* the capsule's window of recent turns (turnHandler: .slice(-5))
RecentTurnsWindow == 5

\* handleUserMessage is called once the previous call has ended
StartNext(h) ==
  /\ exec[h].pc = "idle"
  /\ Len(turns) < MaxSequentialTurns
  /\ exec' = [exec EXCEPT ![h] = [IdleExec EXCEPT !.pc = "begin",
                                                   !.sessionId = currentSessionId,
                                                   !.userInput = UserInputOf(Len(turns) + 1)]]
  /\ UNCHANGED <<turns, files, sessVars, notTurn>>

\* the steps of a handleTurn call in which every awaited call succeeds
NextWindow ==
  \E h \in {"ChatPanel"} :
    \/ StartNext(h)
    \/ HandleUserMessageEnds(h)
    \/ TurnBegin(h)
    \/ ProcessReturn(h)
    \/ UpdateSurface(h)
    \/ StreamRequest(h)
    \/ StreamToken(h)
    \/ StreamClose(h)
    \/ GetCapsule(h)
    \/ TurnEmit(h)

SpecWindow == InitTurn /\ [][NextWindow]_vars

\* capsule.body.recentTurns as stored, by turnId
RecentTurnIds ==
  LET recentTurns == readSurface(currentSessionId, "capsule").body.recentTurns IN
    [i \in DOMAIN recentTurns |-> recentTurns[i].turnId]

\* the turnIds of the completed Turns, oldest first
CompletedTurnIds ==
  LET completed == SelectSeq(turns, LAMBDA turn : turn.status = "completed") IN
    [i \in DOMAIN completed |-> completed[i].turnId]

\* C34: with turns completed one at a time, recentTurns never holds more
\* than 5 entries, and between turns it holds exactly the last 5 completed
\* turns (all of them while there are fewer), oldest first: each completed
\* turn has added one entry and only the oldest have been evicted.
C34_RecentTurnsWindow ==
  /\ Len(RecentTurnIds) <= RecentTurnsWindow
  /\ (\A h \in Handlers : exec[h].pc \in {"idle", "returned"})
       => \E evicted \in 0..Len(CompletedTurnIds) :
            /\ evicted = IF Len(CompletedTurnIds) > RecentTurnsWindow
                           THEN Len(CompletedTurnIds) - RecentTurnsWindow ELSE 0
            /\ RecentTurnIds = SubSeq(CompletedTurnIds, evicted + 1, Len(CompletedTurnIds))

\* the sixth turn has completed and the first has left the window
C34_Witness ==
  /\ Len(turns) = 6
  /\ turns[6].status = "completed"
  /\ exec["ChatPanel"].pc = "returned"
  /\ RecentTurnIds = <<"t2", "t3", "t4", "t5", "t6">>

(***************************************************************************)
(* The timers of streamLLM once it has exited                               *)
(***************************************************************************)

\* C35: once streamLLM has exited, by the end of the stream, by its consumer
\* stopping, or by an error (status, transport, timeout), neither the connect
\* timer nor the idle timer is armed.
C35_NoTimerLeftArmed ==
  spc \in {"returned", "closed", "threw"} =>
    /\ connectTimeout = Unarmed
    /\ idleTimeout = Unarmed

(***************************************************************************)
(* The llm-service readers and an upstream record that carries an error     *)
(***************************************************************************)

\* the complete lines of the body sent that carry an error record and come
\* before any done record
ErrorLines(body) ==
  LET all == CompleteLines(body) IN
    {i \in DOMAIN all :
       /\ all[i] = <<"X">>
       /\ \A j \in 1..(i - 1) : all[j] # <<"E">>}

\* C36: a llm-service reader given a body with an error record does not
\* return normally and delivers nothing that follows the error record: the
\* record ends the stream with an error, it is not skipped.
C36_ErrorRecordAborts ==
  (readerOf = "ollama" /\ ErrorLines(sent) # {}) =>
    /\ readerPc # "returned"
    /\ \A i \in ErrorLines(sent) :
         Len(delivered)
           <= Len(SelectSeq(SubSeq(CompleteLines(sent), 1, i - 1),
                            LAMBDA l : WellFormed("ollama", l)))

(***************************************************************************)
(* The readers and the way the body is cut into chunks                      *)
(***************************************************************************)

RECURSIVE DeliveredFrom(_, _)
\* what the reader's loop body delivers for these lines taken one after the other
DeliveredFrom(r, lineSeq) ==
  IF lineSeq = <<>> THEN <<>>
  ELSE LET step == LineStep(r, Head(lineSeq)) IN
       CASE step.do = "skip" -> DeliveredFrom(r, Tail(lineSeq))
         [] step.do = "yield" -> <<step.value>> \o DeliveredFrom(r, Tail(lineSeq))
         [] step.do = "yield-return" -> <<step.value>>
         [] step.do = "return" -> <<>>

\* C37: whatever the chunks in which a body arrives, a reader delivers what
\* the newline-terminated lines of the whole body give, in order: a record
\* cut by a chunk boundary is delivered once and intact, and when the reader
\* returns every complete record up to the terminal one has been delivered.
C37_ChunkingIrrelevant ==
  /\ readerPc # "idle" => IsPrefix(delivered, DeliveredFrom(readerOf, CompleteLines(sent)))
  /\ readerPc = "returned" => delivered = DeliveredFrom(readerOf, CompleteLines(sent))

\* the first half of a 'data: ' record waits in the buffer for the next
\* chunk, after an earlier record cut the same way has been delivered
C37_Witness ==
  /\ readerOf = "llmClient"
  /\ readerPc = "reading"
  /\ rbuffer = <<"D">>
  /\ unread # <<>>
  /\ delivered # <<>>

SessionRequests == {"llm1", "head", "stream", "trace", "llm3", "getCapsule", "body", "tail"}

\* C39: the session whose surfaces are read and written during a turn is the
\* session recorded in that Turn: while a handleTurn call has surface, process
\* or stream requests to make, the sessionId it passed to beginTurn is the
\* server's current session, also when another client creates a session.
C39_TurnSessionIsCurrent ==
  \A h \in Handlers :
    exec[h].pc \in SessionRequests => exec[h].sessionId = currentSessionId

====
